---- MODULE Spec2Model ----
(***************************************************************************)
(* Model of the tool layer of the database assistant                       *)
(* (backend/combined_server.py, with the schema inference loop shared      *)
(* with backend/mongo_server.py).                                          *)
(*                                                                         *)
(* The process-wide state of the module is modelled by the variables       *)
(* below.  Every tool function is one action; `op` is the call that was    *)
(* made last, `ret` the value it returned and `calls` the backend calls    *)
(* (driver, inspector, matplotlib) it made, in order.                      *)
(***************************************************************************)
EXTENDS Integers, Sequences, FiniteSets, TLC

VARIABLES
    current_db_type,        \* 'mongo' or 'sql'
    available,              \* db_connections[kind]['available']
    sql_engine,             \* the dialect of db_connections['sql']['engine']
    sql_schema_cache,       \* db_connections['sql']['schema_cache']
    mongo_schema_cache,     \* db_connections['mongo']['schema_cache']
    latest_query_result,    \* <<>> is None, <<r>> is the value r
    latest_query_columns,   \* <<>> is None, <<c>> is the value c
    now,                    \* datetime.datetime.now(), in seconds
    ticks,                  \* clock advances so far
    data_version,           \* the content of the backends (environment)
    op,                     \* the last tool call and its input
    ret,                    \* the value the last tool call returned
    calls,                  \* backend calls made by the last tool call
    created_text,           \* per name, the text returned when the entry was created
    docs_in,                \* schema inference: the sampled documents
    idx,                    \* schema inference: documents consumed so far
    schema                  \* schema inference: the dict being built

vars == <<current_db_type, available, sql_engine, sql_schema_cache, mongo_schema_cache,
          latest_query_result, latest_query_columns, now, ticks, data_version,
          op, ret, calls, created_text, docs_in, idx, schema>>

toolVars == <<current_db_type, available, sql_engine, sql_schema_cache, mongo_schema_cache,
              latest_query_result, latest_query_columns, now, ticks, data_version,
              op, ret, calls, created_text>>

inferVars == <<docs_in, idx, schema>>

-----------------------------------------------------------------------------
(* Bounds of the model *)

\* number of clock advances in one behaviour
MaxTicks == 2

\* number of documents handed to the schema inference loop
MaxDocs == 3

-----------------------------------------------------------------------------
(* Python values *)

None == <<>>
Some(x) == <<x>>

\* a value with its run-time type name, type(value).__name__
V(t, v) == [type |-> t, val |-> v]

\* dict.get(key, default)
Get(d, k, default) == IF k \in DOMAIN d THEN d[k] ELSE default

\* the elements of a sequence
Range(s) == {s[i] : i \in DOMAIN s}

RECURSIVE SeqSum(_)
SeqSum(s) == IF s = <<>> THEN 0 ELSE Head(s) + SeqSum(Tail(s))

-----------------------------------------------------------------------------
(* Time *)

\* the staleness window of both schema caches, in seconds
StalenessWindow == 3600

SecondsPerDay == 86400

\* timedelta.seconds of a non-negative timedelta of d seconds: the seconds
\* component, 0 <= seconds < 86400; the days are a separate field
TimedeltaSeconds(d) == d % SecondsPerDay

\* the clock advances the model takes
TickSteps == {1800, SecondsPerDay}

-----------------------------------------------------------------------------
(* The relational backend: what the inspector and the engine answer *)

\* inspector.get_table_names()
SqlTables == <<"t", "u">>

\* inspector.get_columns(table): name, declared type, primary-key flag
SqlColumns(table) ==
    IF table = "t"
    THEN << [name |-> "id",   type |-> "INTEGER", primary_key |-> TRUE],
            [name |-> "name", type |-> "TEXT",    primary_key |-> FALSE],
            [name |-> "age",  type |-> "INTEGER", primary_key |-> FALSE] >>
    ELSE << [name |-> "k",    type |-> "INTEGER", primary_key |-> FALSE] >>

\* the rows of a table in the order the engine returns them for SELECT *
SqlRows(table, version) ==
    IF table = "t"
    THEN IF version = 1
         THEN << <<V("int", "1"), V("str", "Al"), V("int", "20")>>,
                 <<V("int", "2"), V("str", "Bo"), V("NoneType", "None")>>,
                 <<V("int", "3"), V("str", "Al"), V("int", "22")>> >>
         ELSE << <<V("int", "1"), V("str", "Al"), V("int", "20")>>,
                 <<V("int", "9"), V("str", "Zed"), V("NoneType", "None")>>,
                 <<V("int", "3"), V("str", "Al"), V("int", "22")>> >>
    ELSE << >>

\* "\t".join(str(val) for val in row)
RowStr(row) == [i \in DOMAIN row |-> row[i].val]

\* SELECT * FROM table LIMIT n
Limit(rows, n) == SubSeq(rows, 1, IF Len(rows) < n THEN Len(rows) ELSE n)

\* names a caller may pass to sql_db_schema
SqlNameInputs == {<<"t">>, <<"t", "u">>, <<"t", "missing">>}

-----------------------------------------------------------------------------
(* Schema cache, relational side *)

\* f"{col['name']} {col['type']}{' PRIMARY KEY' if col.get('primary_key') else ''}"
ColLine(col) == <<col.name, col.type, IF col.primary_key THEN "PRIMARY KEY" ELSE "">>

\* the CREATE TABLE rendering: one line per column, in the inspector's order
CreateSql(table, columns) ==
    << <<"CREATE TABLE", table>> >> \o [i \in DOMAIN columns |-> ColLine(columns[i])]

\* the sample block: header and rows, or the no-data line
SampleStr(columns, sample) ==
    IF sample # << >>
    THEN << <<"SAMPLE DATA:">>, [i \in DOMAIN columns |-> columns[i].name] >>
         \o [i \in DOMAIN sample |-> RowStr(sample[i])]
    ELSE << <<"(no data in table)">> >>

\* the entry cache_sql_table_schema stores
SqlEntry(table, version, t) ==
    [columns   |-> SqlColumns(table),
     create_sql |-> CreateSql(table, SqlColumns(table)),
     sample    |-> SampleStr(SqlColumns(table), Limit(SqlRows(table, version), 2)),
     timestamp |-> t]

\* cache_sql_table_schema(table_name): the returned dict, the cache after it and
\* the backend calls made.  `fails` are the names whose backend call raises.
cache_sql_table_schema(table, cache, fails) ==
    IF ~available.sql
    THEN [error |-> TRUE, msg |-> "SQL database not available",
          cache |-> cache, calls |-> << >>]
    ELSE IF table \in fails
    THEN [error |-> TRUE, msg |-> "Error caching schema for table",
          cache |-> cache, calls |-> << <<"get_columns", table>> >>]
    ELSE LET e == SqlEntry(table, data_version, now)
         IN  [error |-> FALSE, entry |-> e,
              cache |-> [n \in DOMAIN cache \cup {table} |->
                            IF n = table THEN e ELSE cache[n]],
              calls |-> << <<"get_columns", table>>, <<"execute_sample", table>> >>]

\* the freshness test with the comparison turned around
CacheIsRecentInverted(entry) == TimedeltaSeconds(now - entry.timestamp) > StalenessWindow

\* the freshness test of both schema tools:
\* (datetime.datetime.now() - cache_entry['timestamp']).seconds < 3600
CacheIsRecent(entry) == TimedeltaSeconds(now - entry.timestamp) < StalenessWindow

\* the text for a cached entry: f"TABLE: {table}\n{cache_entry['create_sql']}\n{cache_entry['sample']}"
SqlSchemaTextCached(table, entry) ==
    << <<"TABLE:", table>> >> \o entry.create_sql \o entry.sample

\* the text for a fresh entry: f"TABLE: {table}\n{cache_result['create_sql']}\n{cache_result['sample']}"
SqlSchemaTextFresh(table, result) ==
    << <<"TABLE:", table>> >> \o result.create_sql \o result.sample

\* the loop of sql_db_schema over the requested tables
RECURSIVE SqlSchemaLoop(_, _, _, _, _)
SqlSchemaLoop(names, cache, output, made, fails) ==
    IF names = << >>
    THEN [cache |-> cache, output |-> output, calls |-> made]
    ELSE LET table == Head(names)
         IN  IF table \in DOMAIN cache /\ CacheIsRecent(cache[table])
             THEN SqlSchemaLoop(Tail(names), cache,
                                Append(output, SqlSchemaTextCached(table, cache[table])),
                                made, fails)
             ELSE LET r == cache_sql_table_schema(table, cache, fails)
                  IN  IF r.error
                      THEN SqlSchemaLoop(Tail(names), r.cache,
                                         Append(output, << <<"Error with table", table, r.msg>> >>),
                                         made \o r.calls, fails)
                      ELSE SqlSchemaLoop(Tail(names), r.cache,
                                         Append(output, SqlSchemaTextFresh(table, r.entry)),
                                         made \o r.calls, fails)

WrongDbError == [kind |-> "error", msg |-> "wrong_db"]

WrongBackendNever(backend) == FALSE

\* `current_db_type != 'mongo'`, `current_db_type != 'sql'`: the first
\* statement of every tool of a backend
WrongBackend(backend) == current_db_type # backend

\* what a chart call remembers of the call before it: it was a query that
\* returned the no-rows or the no-documents text
AfterEmptyQuery == op.name \in {"sql_db_query", "mongo_db_query"} /\ ret.kind = "empty"

\* created_text after a schema call: the text returned for every name whose entry
\* the call created or replaced (`marker` is the prober's last backend call)
Created(kind, names, output, made, marker) ==
    LET fresh == {n \in Range(names) : <<marker, n>> \in Range(made)}
    IN  [k \in DOMAIN created_text |->
            IF k # kind THEN created_text[k]
            ELSE [n \in DOMAIN created_text[k] \cup fresh |->
                     IF n \in fresh
                     THEN output[CHOOSE i \in DOMAIN names : names[i] = n]
                     ELSE created_text[k][n]]]

\* sql_db_schema(table_names)
sql_db_schema(names, listFails, fails) ==
    /\ op' = [name |-> "sql_db_schema", input |-> names]
    /\ IF WrongBackend("sql")
       THEN /\ ret' = WrongDbError
            /\ calls' = << >>
            /\ UNCHANGED <<sql_schema_cache, created_text>>
       ELSE IF listFails
       THEN /\ ret' = [kind |-> "error", msg |-> "General error with SQL schema extraction"]
            /\ calls' = << <<"get_table_names", "">> >>
            /\ UNCHANGED <<sql_schema_cache, created_text>>
       ELSE IF \E i \in DOMAIN names : names[i] \notin Range(SqlTables)
       THEN /\ ret' = [kind |-> "error", msg |-> "tables do not exist",
                       invalid |-> SelectSeq(names, LAMBDA n : n \notin Range(SqlTables)),
                       all |-> SqlTables]
            /\ calls' = << <<"get_table_names", "">> >>
            /\ UNCHANGED <<sql_schema_cache, created_text>>
       ELSE LET r == SqlSchemaLoop(names, sql_schema_cache, << >>, << >>, fails)
            IN  /\ ret' = [kind |-> "text", parts |-> r.output]
                /\ calls' = << <<"get_table_names", "">> >> \o r.calls
                /\ sql_schema_cache' = r.cache
                /\ created_text' = Created("sql", names, r.output, r.calls, "execute_sample")
    /\ UNCHANGED <<current_db_type, available, sql_engine, mongo_schema_cache, latest_query_result,
                   latest_query_columns, now, ticks, data_version>>
    /\ UNCHANGED inferVars

-----------------------------------------------------------------------------
(* The document backend: collections and their documents *)

\* field names in lexicographic (code point) order; documents list their fields
\* in this order
FieldOrder == <<"_id", "age", "dept", "tags">>

\* a text of 60 characters with "|" as its 2nd and its 55th character
LongText == "a|text of sixty characters ...........................|....."

\* the positions of "|" in str(value)
PipePositions(v) == IF v.val = LongText THEN {2, 55} ELSE {}

\* a text of two lines
TwoLineText == "mech\neng"

\* len(str(value)) of the values of the model
StrLen(v) == IF v.val = LongText THEN 60 ELSE 2

Doc1 == [_id |-> V("int", "1"), age |-> V("int", "20"), dept |-> V("str", "cs")]
Doc2 == [_id |-> V("int", "2"), age |-> V("str", "21"), dept |-> V("str", "ee"),
         tags |-> V("list", "[]")]
Doc3 == [_id |-> V("int", "3"), dept |-> V("str", "cs")]
Doc4 == [_id |-> V("int", "4"), age |-> V("int", "20"), dept |-> V("str", "ee")]
Doc5 == [_id |-> V("int", "5"), age |-> V("float", "1.5"), dept |-> V("str", "cs")]
Doc6 == [_id |-> V("int", "6"), age |-> V("int", "33"), dept |-> V("str", TwoLineText)]
Doc7 == [_id |-> V("int", "7"), dept |-> V("str", LongText)]
Doc1b == [_id |-> V("int", "1"), age |-> V("str", LongText), dept |-> V("str", "cs")]

\* the documents of a collection in natural order; a collection that does not
\* exist has none
MongoDocs(collection, version) ==
    IF collection = "students"
    THEN IF version = 1
         THEN <<Doc1, Doc2, Doc3, Doc4, Doc5, Doc6, Doc7>>
         ELSE <<Doc1b, Doc3, Doc4, Doc5, Doc6, Doc7, Doc2>>
    ELSE << >>

\* list_collection_names()
MongoCollections == {"students"}

\* names a caller may pass to mongo_db_schema
MongoNameInputs == {<<"students">>}

-----------------------------------------------------------------------------
(* Schema inference: the loop shared by cache_mongo_collection_schema and
   infer_schema.  The schema dict is a sequence of entries in insertion order. *)

\* the fields of a document in the order doc.items() yields them
DocFields(doc) == SelectSeq(FieldOrder, LAMBDA f : f \in DOMAIN doc)

SchemaFields(sch) == {sch[i].field : i \in DOMAIN sch}

SchemaIndex(sch, field) == CHOOSE i \in DOMAIN sch : sch[i].field = field

\* the inner loop body without the membership test before the append
MergeFieldNoMembershipTest(sch, field, value) ==
    IF field = "_id" THEN sch
    ELSE IF \A i \in DOMAIN sch : sch[i].field # field
    THEN Append(sch, [field |-> field,
                      type |-> [multi |-> FALSE, names |-> <<value.type>>],
                      example |-> value])
    ELSE LET i == CHOOSE j \in DOMAIN sch : sch[j].field = field
             old == sch[i].type
         IN  IF ~old.multi /\ old.names[1] = value.type
             THEN sch
             ELSE IF old.multi
             THEN [sch EXCEPT ![i].type.names = Append(old.names, value.type)]
             ELSE [sch EXCEPT ![i].type = [multi |-> TRUE,
                                           names |-> <<old.names[1], value.type>>]]

\* the body of the inner loop for one (field, value) of a document.  A type
\* descriptor is [multi |-> FALSE, names |-> <<t>>] for the string t and
\* [multi |-> TRUE, names |-> list] for a list
MergeField(sch, field, value) ==
    IF field = "_id" THEN sch
    ELSE IF field \notin SchemaFields(sch)
    THEN Append(sch, [field |-> field,
                      type |-> [multi |-> FALSE, names |-> <<value.type>>],
                      example |-> value])
    ELSE LET i == SchemaIndex(sch, field)
             old == sch[i].type
         IN  IF ~old.multi /\ old.names[1] = value.type
             THEN sch
             ELSE IF old.multi
             THEN IF value.type \notin Range(old.names)
                  THEN [sch EXCEPT ![i].type.names = Append(old.names, value.type)]
                  ELSE sch
             ELSE [sch EXCEPT ![i].type = [multi |-> TRUE,
                                           names |-> <<old.names[1], value.type>>]]

RECURSIVE MergeFields(_, _, _)
MergeFields(sch, doc, fields) ==
    IF fields = << >> THEN sch
    ELSE MergeFields(MergeField(sch, Head(fields), doc[Head(fields)]), doc, Tail(fields))

\* one iteration of `for doc in documents`
MergeDoc(sch, doc) == MergeFields(sch, doc, DocFields(doc))

RECURSIVE InferSchema(_, _)
InferSchema(sch, documents) ==
    IF documents = << >> THEN sch
    ELSE InferSchema(MergeDoc(sch, Head(documents)), Tail(documents))

-----------------------------------------------------------------------------
(* Schema cache, document side *)

\* cache_mongo_collection_schema(collection_name): collection.find().limit(2),
\* then the inference loop; an empty sample is cached as {"empty": True}
cache_mongo_collection_schema(collection, cache, fails) ==
    IF ~available.mongo
    THEN [error |-> TRUE, msg |-> "MongoDB not available",
          cache |-> cache, calls |-> << >>]
    ELSE IF collection \in fails
    THEN [error |-> TRUE, msg |-> "Error caching schema for collection",
          cache |-> cache, calls |-> << <<"find_sample_raised", collection>> >>]
    ELSE LET documents == Limit(MongoDocs(collection, data_version), 2)
             e == IF documents = << >>
                  THEN [empty |-> TRUE, timestamp |-> now]
                  ELSE [empty |-> FALSE,
                        schema |-> InferSchema(<< >>, documents),
                        sample |-> documents[1],
                        timestamp |-> now]
         IN  [error |-> FALSE, entry |-> e,
              cache |-> [n \in DOMAIN cache \cup {collection} |->
                            IF n = collection THEN e ELSE cache[n]],
              calls |-> << <<"find_sample", collection>> >>]

\* " or ".join(field_type) for a list, the name itself otherwise
TypeText(type) == type.names

\* the example cell: "complex structure" for a dict or list, else str(example),
\* cut to 27 characters and "..." when longer than 30
ExampleText(example) ==
    IF example.type \in {"dict", "list"}
    THEN [s |-> "complex structure", cut |-> 0]
    ELSE IF StrLen(example) > 30
    THEN [s |-> example.val, cut |-> 27]
    ELSE [s |-> example.val, cut |-> 0]

\* the markdown of a cached entry (the cache-hit branch of mongo_db_schema)
MongoSchemaTextCached(collection, cache_entry) ==
    IF cache_entry.empty
    THEN [collection |-> collection, nodocs |-> TRUE]
    ELSE [collection |-> collection, nodocs |-> FALSE,
          rows |-> [i \in DOMAIN cache_entry.schema |->
                      <<cache_entry.schema[i].field,
                        TypeText(cache_entry.schema[i].type),
                        ExampleText(cache_entry.schema[i].example)>>],
          sample |-> cache_entry.sample]

\* the markdown of a fresh result (the cache-miss branch of mongo_db_schema)
MongoSchemaTextFresh(collection, cache_result) ==
    IF cache_result.empty
    THEN [collection |-> collection, nodocs |-> TRUE]
    ELSE [collection |-> collection, nodocs |-> FALSE,
          rows |-> [i \in DOMAIN cache_result.schema |->
                      <<cache_result.schema[i].field,
                        TypeText(cache_result.schema[i].type),
                        ExampleText(cache_result.schema[i].example)>>],
          sample |-> cache_result.sample]

\* the loop of mongo_db_schema over the requested collections
RECURSIVE MongoSchemaLoop(_, _, _, _, _)
MongoSchemaLoop(names, cache, output, made, fails) ==
    IF names = << >>
    THEN [cache |-> cache, output |-> output, calls |-> made]
    ELSE LET collection == Head(names)
         IN  IF collection \in DOMAIN cache /\ CacheIsRecent(cache[collection])
             THEN MongoSchemaLoop(Tail(names), cache,
                                  Append(output, MongoSchemaTextCached(collection, cache[collection])),
                                  made, fails)
             ELSE LET r == cache_mongo_collection_schema(collection, cache, fails)
                  IN  IF r.error
                      THEN MongoSchemaLoop(Tail(names), r.cache,
                                           Append(output, [collection |-> collection, error |-> r.msg]),
                                           made \o r.calls, fails)
                      ELSE MongoSchemaLoop(Tail(names), r.cache,
                                           Append(output, MongoSchemaTextFresh(collection, r.entry)),
                                           made \o r.calls, fails)

\* mongo_db_schema(tool_input)
mongo_db_schema(names, fails) ==
    /\ op' = [name |-> "mongo_db_schema", input |-> names]
    /\ IF WrongBackend("mongo")
       THEN /\ ret' = WrongDbError
            /\ calls' = << >>
            /\ UNCHANGED <<mongo_schema_cache, created_text>>
       ELSE LET r == MongoSchemaLoop(names, mongo_schema_cache, << >>, << >>, fails)
            IN  /\ ret' = [kind |-> "text", parts |-> r.output]
                /\ calls' = r.calls
                /\ mongo_schema_cache' = r.cache
                /\ created_text' = Created("mongo", names, r.output, r.calls, "find_sample")
    /\ UNCHANGED <<current_db_type, available, sql_engine, sql_schema_cache, latest_query_result,
                   latest_query_columns, now, ticks, data_version>>
    /\ UNCHANGED inferVars

-----------------------------------------------------------------------------
(* Backend selection and the environment *)

\* names a caller may pass to set_current_db_type
DbTypeInputs == {"mongo", "sql", "SQL", "oracle"}

\* db_type.lower()
Lower(db_type) == IF db_type = "SQL" THEN "sql" ELSE db_type

BackendAvailableAlways(requested_type) == TRUE

\* db_connections[requested_type]['available']
BackendAvailable(requested_type) == available[requested_type]

\* set_current_db_type(db_type)
set_current_db_type(db_type) ==
    /\ op' = [name |-> "set_current_db_type", input |-> db_type]
    /\ calls' = << >>
    /\ IF Lower(db_type) \notin {"mongo", "sql"}
       THEN /\ ret' = [kind |-> "error", msg |-> "Invalid database type"]
            /\ UNCHANGED current_db_type
       ELSE IF ~BackendAvailable(Lower(db_type))
       THEN /\ ret' = [kind |-> "error", msg |-> "connection is not available"]
            /\ UNCHANGED current_db_type
       ELSE /\ current_db_type' = Lower(db_type)
            /\ ret' = [kind |-> "text", parts |-> <<Lower(db_type)>>]
    /\ UNCHANGED <<available, sql_engine, sql_schema_cache, mongo_schema_cache, latest_query_result,
                   latest_query_columns, now, ticks, data_version, created_text>>
    /\ UNCHANGED inferVars

\* the clock advances between two tool calls
Tick(d) ==
    /\ ticks < MaxTicks
    /\ ticks' = ticks + 1
    /\ now' = now + d
    /\ UNCHANGED <<current_db_type, available, sql_engine, sql_schema_cache, mongo_schema_cache,
                   latest_query_result, latest_query_columns, data_version,
                   op, ret, calls, created_text>>
    /\ UNCHANGED inferVars

\* another client changes the content of the databases
DataChange ==
    /\ data_version = 1
    /\ data_version' = 2
    /\ UNCHANGED <<current_db_type, available, sql_engine, sql_schema_cache, mongo_schema_cache,
                   latest_query_result, latest_query_columns, now, ticks,
                   op, ret, calls, created_text>>
    /\ UNCHANGED inferVars

-----------------------------------------------------------------------------
(* Start of the process *)

\* the state the module-level code leaves: every backend that connected is
\* available, at least one is, and the document backend is preferred; the
\* engine is MySQL or the SQLite fallback, and stays set when only the
\* inspector failed
InitTools ==
    /\ available \in {[mongo |-> TRUE, sql |-> TRUE],
                      [mongo |-> TRUE, sql |-> FALSE],
                      [mongo |-> FALSE, sql |-> TRUE]}
    /\ sql_engine \in IF available.sql THEN {"mysql", "sqlite"}
                      ELSE {"none", "mysql", "sqlite"}
    /\ current_db_type = IF available.mongo THEN "mongo" ELSE "sql"
    /\ sql_schema_cache = << >>
    /\ mongo_schema_cache = << >>
    /\ latest_query_result = None
    /\ latest_query_columns = None
    /\ now = 0
    /\ ticks = 0
    /\ data_version = 1
    /\ op = [name |-> "start"]
    /\ ret = [kind |-> "none"]
    /\ calls = << >>
    /\ created_text = [sql |-> << >>, mongo |-> << >>]

InferIdle ==
    /\ docs_in = << >>
    /\ idx = 0
    /\ schema = << >>

-----------------------------------------------------------------------------
(* The schema tools with the clock and the changing data *)

InitCache == InitTools /\ InferIdle

NextCache ==
    \/ \E names \in SqlNameInputs, listFails \in BOOLEAN :
          \E fails \in SUBSET Range(names) : sql_db_schema(names, listFails, fails)
    \/ \E names \in MongoNameInputs :
          \E fails \in SUBSET Range(names) : mongo_db_schema(names, fails)
    \/ \E db_type \in {"mongo", "sql", "oracle"} : set_current_db_type(db_type)
    \/ \E d \in TickSteps : Tick(d)
    \/ DataChange

SpecCache == InitCache /\ [][NextCache]_vars

\* one schema request after the other for the same name, the clock advancing by
\* an hour or by the rest of a day
NextRetry ==
    \/ \E fails \in SUBSET {"t"} : sql_db_schema(<<"t">>, FALSE, fails)
    \/ \E fails \in SUBSET {"students"} : mongo_db_schema(<<"students">>, fails)
    \/ \E d \in {StalenessWindow, SecondsPerDay - StalenessWindow} : Tick(d)

SpecRetry == InitCache /\ [][NextRetry]_vars

\* the schema tools called with any names, at one instant
NextNames ==
    \/ \E names \in SqlNameInputs, listFails \in BOOLEAN :
          \E fails \in SUBSET Range(names) : sql_db_schema(names, listFails, fails)
    \/ \E names \in {<<"students">>, <<"ghost">>, <<"ghost", "students">>} :
          \E fails \in SUBSET Range(names) : mongo_db_schema(names, fails)
    \/ \E db_type \in {"mongo", "sql", "oracle"} : set_current_db_type(db_type)

SpecNames == InitCache /\ [][NextNames]_vars

-----------------------------------------------------------------------------
(* Properties of the schema cache *)

SchemaTool(kind) == IF kind = "sql" THEN "sql_db_schema" ELSE "mongo_db_schema"

SchemaCache(kind) == IF kind = "sql" THEN sql_schema_cache ELSE mongo_schema_cache

CacheNames(kind) == IF kind = "sql" THEN {"t", "u", "missing"} ELSE {"students", "nosuch"}

\* this step is a call of the schema tool of `kind` that got to its loop
SchemaStep(kind) ==
    /\ op'.name = SchemaTool(kind)
    /\ ret'.kind = "text"
    /\ UNCHANGED <<now, data_version>>

\* the prober of name n is among the backend calls `made`
ProberCalled(n, made) ==
    \E i \in DOMAIN made :
        /\ made[i][2] = n
        /\ made[i][1] \in {"get_columns", "find_sample", "find_sample_raised"}

\* the part of the returned text that belongs to name n of the request
TextFor(names, parts, n) == parts[CHOOSE i \in DOMAIN names : names[i] = n]

\* C1: an entry created at t0 and looked up at t1 with t1 - t0 >= one hour
\* (whatever the gap, also more than a day) is a miss: the prober is invoked
\* again for that name.
C1_StaleEntryIsReprobed ==
    [][\A kind \in {"sql", "mongo"} : \A n \in CacheNames(kind) :
          ( /\ SchemaStep(kind)
            /\ n \in Range(op'.input)
            /\ n \in DOMAIN SchemaCache(kind)
            /\ now - SchemaCache(kind)[n].timestamp >= StalenessWindow )
          => ProberCalled(n, calls')]_vars

\* C10: a lookup of a name whose entry is younger than the staleness window
\* does not invoke the prober and returns the text that was returned when the
\* entry was created, whatever happened to the data in between.
C10_FreshEntryServedUnchanged ==
    [][\A kind \in {"sql", "mongo"} : \A n \in CacheNames(kind) :
          ( /\ SchemaStep(kind)
            /\ n \in Range(op'.input)
            /\ n \in DOMAIN SchemaCache(kind)
            /\ now - SchemaCache(kind)[n].timestamp < StalenessWindow )
          => /\ ~ProberCalled(n, calls')
             /\ TextFor(op'.input, ret'.parts, n) = created_text[kind][n]]_vars

\* a table was served from its entry, half an hour old, after the rows changed
C10_Witness ==
    /\ op.name = "sql_db_schema"
    /\ ret.kind = "text"
    /\ "t" \in Range(op.input)
    /\ ~ProberCalled("t", calls)
    /\ "t" \in DOMAIN sql_schema_cache
    /\ sql_schema_cache["t"].timestamp < now
    /\ now - sql_schema_cache["t"].timestamp < StalenessWindow
    /\ sql_schema_cache["t"].sample # SqlEntry("t", data_version, now).sample

-----------------------------------------------------------------------------
(* The schema inference loop, one document per step *)

\* the documents a sample is drawn from: `age` absent or of one of three
\* types, `dept` absent or a string
InferDocs ==
    {Doc1, Doc2, Doc3, Doc4, Doc5, Doc6,
     [_id |-> V("int", "8")],
     [_id |-> V("int", "9"), age |-> V("float", "1.5")],
     [_id |-> V("int", "10"), age |-> V("str", "21")]}

SamplesUpTo(n) == UNION {[1..k -> InferDocs] : k \in 1..n}

InitInfer ==
    /\ InitTools
    /\ available = [mongo |-> TRUE, sql |-> TRUE]
    /\ docs_in \in SamplesUpTo(MaxDocs)
    /\ idx = 0
    /\ schema = << >>

\* one iteration of `for doc in documents` (cache_mongo_collection_schema, infer_schema)
InferStep ==
    /\ idx < Len(docs_in)
    /\ schema' = MergeDoc(schema, docs_in[idx + 1])
    /\ idx' = idx + 1
    /\ UNCHANGED docs_in
    /\ UNCHANGED toolVars

NextInfer == InferStep

SpecInfer == InitInfer /\ [][NextInfer]_vars

\* the positions, among the documents consumed so far, of those that have field f
Holders(f) == {i \in 1..idx : f \in DOMAIN docs_in[i]}

TypesSeen(f) == {docs_in[i][f].type : i \in Holders(f)}

FirstWith(f, t) == CHOOSE i \in Holders(f) :
                      /\ docs_in[i][f].type = t
                      /\ \A j \in Holders(f) : docs_in[j][f].type = t => i <= j

FirstHolder(f) == CHOOSE i \in Holders(f) : \A j \in Holders(f) : i <= j

\* the descriptor of field f is what the documents consumed so far call for
DescriptorRight(e) ==
    LET f == e.field
        names == e.type.names
    IN  /\ f # "_id"
        /\ Holders(f) # {}
        /\ Range(names) = TypesSeen(f)
        /\ \A i, j \in DOMAIN names :
              i < j => FirstWith(f, names[i]) < FirstWith(f, names[j])
        /\ e.type.multi <=> Cardinality(TypesSeen(f)) > 1
        /\ e.example = docs_in[FirstHolder(f)][f]

\* C9: for every field other than `_id` the type descriptor is one name while
\* all occurrences share a type and otherwise the list of the distinct names in
\* first-seen order; a list never becomes a single name again; the example is
\* the value of the first sampled document that has the field.
C9_TypeDescriptor ==
    /\ [](/\ \A i \in DOMAIN schema : DescriptorRight(schema[i])
          /\ \A i, j \in DOMAIN schema : schema[i].field = schema[j].field => i = j
          /\ \A f \in Range(FieldOrder) \ {"_id"} :
                Holders(f) # {} => f \in SchemaFields(schema))
    /\ [][\A i \in DOMAIN schema :
             schema[i].type.multi =>
                /\ i \in DOMAIN schema'
                /\ schema'[i].field = schema[i].field
                /\ schema'[i].type.multi]_vars

\* int, str, then int again: the descriptor stays the list ["int", "str"] and
\* the example is the value of the first document
C9_Witness ==
    /\ idx = 3
    /\ docs_in[1] = Doc1 /\ docs_in[2] = Doc2 /\ docs_in[3] = Doc4
    /\ \E i \in DOMAIN schema :
          /\ schema[i].field = "age"
          /\ schema[i].type = [multi |-> TRUE, names |-> <<"int", "str">>]
          /\ schema[i].example = V("int", "20")

-----------------------------------------------------------------------------
(* SQL text.  A statement is its sequence of tokens: a word is a maximal run
   of [A-Za-z0-9_], every other character is a token of its own, so \bW\b
   matches exactly where a word equals W. *)

NonWordChars == {" ", ";", "*", "'", ",", "=", "-", "(", ")"}

IsWord(tok) == tok \notin NonWordChars

\* str.upper() on the words of the model
Upper(tok) ==
    CASE tok = "select"  -> "SELECT"
      [] tok = "from"    -> "FROM"
      [] tok = "drop"    -> "DROP"
      [] tok = "update"  -> "UPDATE"
      [] tok = "year"    -> "YEAR"
      [] tok = "name"    -> "NAME"
      [] tok = "id"      -> "ID"
      [] tok = "age"     -> "AGE"
      [] tok = "t"       -> "T"
      [] tok = "u"       -> "U"
      [] tok = "missing" -> "MISSING"
      [] OTHER           -> tok

\* the statements callers pass to sql_db_query
SqlStatements ==
    { <<"SELECT", " ", "name", " ", "FROM", " ", "t">>,
      <<"select", " ", "id", ",", " ", "name", ",", " ", "age", " ", "from", " ", "t">>,
      <<" ", "SELECT", " ", "*", " ", "FROM", " ", "u">>,
      <<"SELECT", " ", "name", " ", "FROM", " ", "missing">>,
      <<"DROP", " ", "TABLE", " ", "t">>,
      <<"SELECT", " ", "year", " ", "(", "id", ")", " ", "FROM", " ", "t">>,
      <<"SELECT", " ", "id", " ", "FROM", " ", "t", ";", " ", "drop", " ", "TABLE", " ", "t">>,
      <<"SELECT", " ", "name", " ", "FROM", " ", "t", " ", "-", "-", " ", "update">> }

\* str.strip(): without the leading and trailing blanks
RECURSIVE LStrip(_)
LStrip(q) == IF q # << >> /\ Head(q) = " " THEN LStrip(Tail(q)) ELSE q

RECURSIVE RStrip(_)
RStrip(q) == IF q # << >> /\ q[Len(q)] = " " THEN RStrip(SubSeq(q, 1, Len(q) - 1)) ELSE q

Strip(q) == RStrip(LStrip(q))

StartsWithAnything(q) == TRUE

\* query.strip().upper().startswith('SELECT')
StartsWithSelect(q) ==
    LET stripped == Strip(q)
    IN  stripped # << >> /\ Upper(stripped[1]) \in {"SELECT", "SELECTED"}

\* the words of dangerous_patterns in sql_db_query_checker
DangerousWords == {"DROP", "DELETE", "TRUNCATE", "UPDATE", "INSERT", "ALTER", "CREATE", "EXEC"}

\* re.search(pattern, query, re.IGNORECASE) for one of the dangerous patterns
HasDangerousWord(q) == \E i \in DOMAIN q : IsWord(q[i]) /\ Upper(q[i]) \in DangerousWords

\* the functions of invalid_functions in sql_db_query_checker
DateFunctions == {"YEAR", "MONTH", "DAY"}

\* the first position from i on that does not hold a blank
RECURSIVE SkipBlanks(_, _)
SkipBlanks(q, i) == IF i <= Len(q) /\ q[i] = " " THEN SkipBlanks(q, i + 1) ELSE i

\* re.search(r'\bYEAR\s*\(', query, re.IGNORECASE), likewise MONTH and DAY
HasDateFunction(q) ==
    \E i \in DOMAIN q :
        /\ IsWord(q[i])
        /\ Upper(q[i]) \in DateFunctions
        /\ SkipBlanks(q, i + 1) <= Len(q)
        /\ q[SkipBlanks(q, i + 1)] = "("

\* re.findall(r'(?:FROM|JOIN)\s+([a-zA-Z0-9_]+)', query, re.IGNORECASE)
QueryTablePositions(q) ==
    {i \in DOMAIN q : /\ i + 2 <= Len(q)
                      /\ Upper(q[i]) \in {"FROM", "JOIN"}
                      /\ q[i + 1] = " "
                      /\ IsWord(q[i + 2])}

RECURSIVE QueryTablesFrom(_, _)
QueryTablesFrom(q, i) ==
    IF i > Len(q) THEN << >>
    ELSE IF i \in QueryTablePositions(q)
    THEN <<q[i + 2]>> \o QueryTablesFrom(q, i + 1)
    ELSE QueryTablesFrom(q, i + 1)

QueryTables(q) == QueryTablesFrom(q, 1)

-----------------------------------------------------------------------------
(* The relational engine: conn.execute(text(query)).fetchall() *)

ColumnNames(table) == [i \in DOMAIN SqlColumns(table) |-> SqlColumns(table)[i].name]

ColumnIndex(table, name) ==
    CHOOSE i \in DOMAIN ColumnNames(table) : Upper(ColumnNames(table)[i]) = Upper(name)

\* the name the engine gives the column of a function call
CallColumn == "year (id)"

\* the engine's answer to a statement of the form SELECT list FROM table,
\* optionally followed by a comment: the columns and rows, or "raise".
\* YEAR, MONTH and DAY are functions of MySQL; SQLite has no such function.
SqlExecute(q, version, engine) ==
    LET s == Strip(q)
        froms == {i \in DOMAIN s : Upper(s[i]) = "FROM"}
    IN  IF froms = {} \/ \E i \in DOMAIN s : s[i] = ";"
        THEN [raise |-> TRUE]
        ELSE LET f == CHOOSE i \in froms : \A j \in froms : i <= j
                 table == IF f + 2 <= Len(s) THEN s[f + 2] ELSE ""
                 list == SelectSeq(SubSeq(s, 2, f - 1), LAMBDA tok : tok \notin {" ", ","})
                 rest == SubSeq(s, f + 3, Len(s))
             IN  IF \/ table \notin Range(SqlTables)
                    \/ list = << >>
                    \/ (rest # << >> /\ (Len(rest) < 3 \/ SubSeq(rest, 1, 3) # <<" ", "-", "-">>))
                    \/ \E i \in DOMAIN list :
                          /\ list[i] # "*"
                          /\ \A c \in Range(ColumnNames(table)) : Upper(c) # Upper(list[i])
                 THEN IF /\ engine = "mysql"
                         /\ rest = << >>
                         /\ table \in Range(SqlTables)
                         /\ Len(list) = 4
                         /\ Upper(list[1]) \in DateFunctions
                         /\ list[2] = "(" /\ list[4] = ")"
                         /\ \E c \in Range(ColumnNames(table)) : Upper(c) = Upper(list[3])
                      THEN [raise |-> FALSE,
                            columns |-> <<CallColumn>>,
                            rows |-> [r \in DOMAIN SqlRows(table, version) |->
                                         <<V("NoneType", "None")>>]]
                      ELSE [raise |-> TRUE]
                 ELSE LET cols == IF list = <<"*">>
                                  THEN [i \in DOMAIN ColumnNames(table) |-> i]
                                  ELSE [i \in DOMAIN list |-> ColumnIndex(table, list[i])]
                          rows == SqlRows(table, version)
                      IN  IF \E i \in DOMAIN list : list[i] = "*" /\ Len(list) > 1
                          THEN [raise |-> TRUE]
                          ELSE [raise |-> FALSE,
                                columns |-> [i \in DOMAIN cols |-> ColumnNames(table)[cols[i]]],
                                rows |-> [r \in DOMAIN rows |->
                                             [i \in DOMAIN cols |-> rows[r][cols[i]]]]]

-----------------------------------------------------------------------------
(* Result tables *)

\* one cell of a result table: str(val), cut to 47 characters and "..." when
\* longer than 50, then every "|" escaped
FormatCellCutAt50(value) ==
    [s |-> value.val,
     cut |-> IF StrLen(value) > 50 THEN 50 ELSE 0,
     length |-> IF StrLen(value) > 50 THEN 50 + 3 ELSE StrLen(value),
     ellipsis |-> StrLen(value) > 50,
     pipes |-> [p \in {q \in PipePositions(value) : StrLen(value) > 50 => q <= 50} |-> "\\|"]]

\* `cut` is the number of characters kept when the text is cut (0: not cut),
\* `length` the length before the replacement, `pipes` what the text has, after
\* the replacement, in the place of each "|" that is left
FormatCell(value) ==
    [s |-> value.val,
     cut |-> IF StrLen(value) > 50 THEN 47 ELSE 0,
     length |-> IF StrLen(value) > 50 THEN 47 + 3 ELSE StrLen(value),
     ellipsis |-> StrLen(value) > 50,
     pipes |-> [p \in {q \in PipePositions(value) : StrLen(value) > 50 => q <= 47} |-> "\\|"]]

\* the line breaks inside a formatted cell: neither str(val) nor the cut nor
\* the replacement of "|" removes a "\n" of the value
LineBreaks(cell) == IF cell.s = TwoLineText /\ cell.cut = 0 THEN 1 ELSE 0

RECURSIVE LineBreaksIn(_)
LineBreaksIn(cells) ==
    IF cells = << >> THEN 0 ELSE LineBreaks(Head(cells)) + LineBreaksIn(Tail(cells))

\* the number of lines of "\n".join(out) for out = [header, separator] + rows
RECURSIVE RowLines(_)
RowLines(rows) ==
    IF rows = << >> THEN 0 ELSE 1 + LineBreaksIn(Head(rows)) + RowLines(Tail(rows))

OutputLines(table) == 2 + RowLines(table.rows)

\* the markdown table of sql_db_query: header, separator, one line per row
SqlTable(columns, rows) ==
    [kind |-> "table",
     header |-> columns,
     separator |-> [i \in DOMAIN columns |-> "---"],
     rows |-> [r \in DOMAIN rows |-> [i \in DOMAIN rows[r] |-> FormatCell(rows[r][i])]]]


\* the store that keeps the empty row list instead of clearing the result
SqlStoreKeepsEmpty(columns, rows) ==
    [result |-> Some([shape |-> "rows", recs |-> rows]), columns |-> Some(columns)]

\* the store that assigns the rows and not their columns
SqlStoreRowsOnly(columns, rows) ==
    IF rows = << >>
    THEN [result |-> None, columns |-> None]
    ELSE [result |-> Some([shape |-> "rows", recs |-> rows]), columns |-> None]

\* what sql_db_query leaves in latest_query_result and latest_query_columns
\* after fetchall(): both None for no rows, else the rows and their columns
SqlStore(columns, rows) ==
    IF rows = << >>
    THEN [result |-> None, columns |-> None]
    ELSE [result |-> Some([shape |-> "rows", recs |-> rows]), columns |-> Some(columns)]

\* sql_db_query(query).  `raises`: the engine raises whatever the statement;
\* `listFails`: inspector.get_table_names() raises in the except block
sql_db_query(query, raises, listFails) ==
    /\ op' = [name |-> "sql_db_query", input |-> query]
    /\ IF current_db_type # "sql"
       THEN /\ ret' = WrongDbError
            /\ calls' = << >>
            /\ UNCHANGED <<latest_query_result, latest_query_columns>>
       ELSE IF ~StartsWithSelect(query)
       THEN /\ ret' = [kind |-> "error", msg |-> "Only SELECT queries are allowed"]
            /\ calls' = << >>
            /\ UNCHANGED <<latest_query_result, latest_query_columns>>
       ELSE LET r == IF raises THEN [raise |-> TRUE] ELSE SqlExecute(query, data_version, sql_engine)
            IN  IF r.raise
                THEN /\ latest_query_result' = None
                     /\ latest_query_columns' = None
                     /\ calls' = << <<"execute", "query">>, <<"get_table_names", "">> >>
                     /\ ret' = IF listFails
                               THEN [kind |-> "exception"]
                               ELSE [kind |-> "error", msg |-> "Error executing SQL query",
                                     available_tables |-> SqlTables,
                                     missing_tables |->
                                        SelectSeq(QueryTables(query),
                                                  LAMBDA t : t \notin Range(SqlTables))]
                ELSE /\ latest_query_result' = SqlStore(r.columns, r.rows).result
                     /\ latest_query_columns' = SqlStore(r.columns, r.rows).columns
                     /\ calls' = << <<"execute", "query">> >>
                     /\ ret' = IF r.rows = << >>
                               THEN [kind |-> "empty", text |-> "(no rows returned)"]
                               ELSE SqlTable(r.columns, r.rows)
    /\ UNCHANGED <<current_db_type, available, sql_engine, sql_schema_cache, mongo_schema_cache,
                   now, ticks, data_version, created_text>>
    /\ UNCHANGED inferVars

-----------------------------------------------------------------------------
(* The document store: collection.find(...) and collection.aggregate(...) *)

\* int(s) for the identifiers of the model
IntOf(s) ==
    CASE s = "1" -> 1 [] s = "2" -> 2 [] s = "3" -> 3 [] s = "4" -> 4 [] s = "5" -> 5
      [] s = "6" -> 6 [] s = "7" -> 7 [] OTHER -> 0

\* a filter is {} ([k |-> "all"]) or {field: value} ([k |-> "eq", ...])
Matches(doc, filter) ==
    \/ filter.k = "all"
    \/ filter.field \in DOMAIN doc /\ doc[filter.field].val = filter.value

Restrict(doc, fields) == [f \in fields |-> doc[f]]

\* the fields of a document a projection keeps; `_id` stays unless it is
\* mapped to 0
Project(doc, projection) ==
    IF DOMAIN projection = {} THEN doc
    ELSE LET keepId == ~("_id" \in DOMAIN projection /\ projection["_id"] = 0)
             including == \E f \in DOMAIN projection : projection[f] = 1
         IN  Restrict(doc,
                {f \in DOMAIN doc :
                    IF f = "_id" THEN keepId
                    ELSE IF including
                         THEN f \in DOMAIN projection /\ projection[f] = 1
                         ELSE ~(f \in DOMAIN projection /\ projection[f] = 0)})

\* cursor.sort: by `_id`, ascending (dir = 1) or descending (dir = -1)
Before(a, b, sort) ==
    IF sort.dir = 1 THEN IntOf(a["_id"].val) <= IntOf(b["_id"].val)
                    ELSE IntOf(a["_id"].val) >= IntOf(b["_id"].val)

RECURSIVE InsertSorted(_, _, _)
InsertSorted(doc, docs, sort) ==
    IF docs = << >> THEN <<doc>>
    ELSE IF Before(doc, Head(docs), sort) THEN <<doc>> \o docs
    ELSE <<Head(docs)>> \o InsertSorted(doc, Tail(docs), sort)

RECURSIVE SortDocs(_, _)
SortDocs(docs, sort) ==
    IF docs = << >> THEN << >>
    ELSE InsertSorted(docs[Len(docs)], SortDocs(SubSeq(docs, 1, Len(docs) - 1), sort), sort)

Skip(docs, n) == SubSeq(docs, n + 1, Len(docs))

\* list(cursor) of a find: filter, sort, skip, limit, projection.  `sort` and
\* `limit` are <<>> when the cursor method was not called
Find(docs, filter, projection, sort, skip, limit) ==
    LET matched == SelectSeq(docs, LAMBDA d : Matches(d, filter))
        sorted == IF sort = << >> THEN matched ELSE SortDocs(matched, sort[1])
        skipped == Skip(sorted, skip)
        limited == IF limit = << >> THEN skipped ELSE Limit(skipped, limit[1])
    IN  [i \in DOMAIN limited |-> Project(limited[i], projection)]

\* a pipeline stage is [stage, n, field, value]; $out writes a collection
WriteStages == {"$out", "$merge"}

RECURSIVE GroupKeys(_, _, _)
GroupKeys(docs, field, seen) ==
    IF docs = << >> THEN << >>
    ELSE LET key == IF field \in DOMAIN Head(docs) THEN Head(docs)[field]
                    ELSE V("NoneType", "None")
         IN  IF key \in seen THEN GroupKeys(Tail(docs), field, seen)
             ELSE <<[_id |-> key]>> \o GroupKeys(Tail(docs), field, seen \cup {key})

RunStage(docs, st) ==
    CASE st.stage = "$match" -> SelectSeq(docs, LAMBDA d : Matches(d, [k |-> "eq", field |-> st.field, value |-> st.value]))
      [] st.stage = "$limit" -> Limit(docs, st.n)
      [] st.stage = "$group" -> GroupKeys(docs, st.field, {})
      [] OTHER -> << >>

\* list(collection.aggregate(pipeline))
RECURSIVE Aggregate(_, _)
Aggregate(docs, pipeline) ==
    IF pipeline = << >> THEN docs
    ELSE Aggregate(RunStage(docs, Head(pipeline)), Tail(pipeline))

-----------------------------------------------------------------------------
(* Requests to mongo_db_query: the parsed JSON object is a function from the
   keys that are present to their values *)

NoKey == << >>

DeptIsCs == [k |-> "eq", field |-> "dept", value |-> "cs"]

FilterOptions == {NoKey, "filter" :> DeptIsCs}

ProjectionOptions == {NoKey, "projection" :> [_id |-> 1], "projection" :> [dept |-> 1],
                      "projection" :> [_id |-> 0, dept |-> 1]}

SortOptions == {NoKey, "sort" :> [field |-> "_id", dir |-> -1]}

SkipOptions == {NoKey, "skip" :> 1}

LimitOptions == {NoKey, "limit" :> 0, "limit" :> 2}

Stage(name, n, field, value) == [stage |-> name, n |-> n, field |-> field, value |-> value]

Pipelines ==
    { << >>,
      << Stage("$limit", 2, "", "") >>,
      << Stage("$group", 0, "dept", "") >>,
      << Stage("$match", 0, "dept", "cs"), Stage("$out", 0, "copy", "") >> }

FindRequests ==
    { ("collection" :> "students") @@ f @@ p @@ l :
        f \in FilterOptions, p \in ProjectionOptions, l \in LimitOptions }
    \cup { ("collection" :> "students") @@ s @@ k @@ l :
             s \in SortOptions, k \in SkipOptions, l \in LimitOptions }
    \cup { "collection" :> "nosuch" }

PipelineRequests ==
    { ("collection" :> "students") @@ ("pipeline" :> pl) @@ rest :
        pl \in Pipelines,
        rest \in { NoKey,
                   ("filter" :> DeptIsCs) @@ ("projection" :> [dept |-> 1])
                      @@ ("skip" :> 1) @@ ("limit" :> 2) } }

\* the strings callers pass: no JSON, JSON that is no object, an object
\* without a collection name, a find, an aggregation
MongoQueryInputs ==
    { [json |-> "malformed"], [json |-> "array"] }
    \cup { [json |-> "object", params |-> q] :
             q \in FindRequests \cup PipelineRequests
                   \cup { "filter" :> DeptIsCs, "collection" :> "" } }

-----------------------------------------------------------------------------
(* mongo_db_query *)

\* the code point of the first character of the field names of the model,
\* which differ in it
CodePoint(f) ==
    CASE f = "_id" -> 95 [] f = "age" -> 97 [] f = "dept" -> 100 [] f = "tags" -> 116
      [] OTHER -> 0

\* sorted(list(all_fields))
RECURSIVE Sorted(_)
Sorted(fields) ==
    IF fields = {} THEN << >>
    ELSE LET least == CHOOSE f \in fields : \A g \in fields : CodePoint(f) <= CodePoint(g)
         IN  <<least>> \o Sorted(fields \ {least})

\* all_fields after the loop over the documents
AllFields(documents) == UNION {DOMAIN documents[i] : i \in DOMAIN documents}

\* bool(x) of a list or dict given as a sequence or function
Truthy(x) == DOMAIN x # {}

\* the column list that never drops `_id`
ResultColumnsKeepId(documents, pipeline, projection) == Sorted(AllFields(documents))

\* the column list: the union of the keys, without `_id` for a find whose
\* projection does not name it
ResultColumns(documents, pipeline, projection) ==
    LET all_fields == AllFields(documents)
    IN  Sorted(IF /\ ~Truthy(pipeline)
                  /\ "_id" \in all_fields
                  /\ (~Truthy(projection) \/ "_id" \notin DOMAIN projection)
               THEN all_fields \ {"_id"}
               ELSE all_fields)

\* one line of the markdown table: doc.get(col, "") per column
DocRow(doc, columns) ==
    [i \in DOMAIN columns |->
        IF columns[i] \in DOMAIN doc THEN FormatCell(doc[columns[i]])
        ELSE [s |-> "", cut |-> 0, length |-> 0, ellipsis |-> FALSE, pipes |-> << >>]]

MongoTable(columns, documents) ==
    [kind |-> "table",
     header |-> columns,
     separator |-> [i \in DOMAIN columns |-> "---"],
     rows |-> [r \in DOMAIN documents |-> DocRow(documents[r], columns)]]

\* a default of 0, as execute_mongo_query of mongo_server.py has it
DefaultLimitZero == 0

\* query_params.get("limit", 5)
DefaultLimit == 5

\* the backend call of mongo_db_query and the documents it returns
MongoFetch(query_params) ==
    LET pipeline == Get(query_params, "pipeline", None)
        docs == MongoDocs(query_params["collection"], data_version)
    IN  IF Truthy(pipeline)
        THEN [call |-> "aggregate", documents |-> Aggregate(docs, pipeline)]
        ELSE LET filter_query == Get(query_params, "filter", [k |-> "all"])
                 projection == Get(query_params, "projection", None)
                 sort == Get(query_params, "sort", None)
                 skip == Get(query_params, "skip", 0)
                 limit == Get(query_params, "limit", DefaultLimit)
             IN  [call |-> "find",
                  documents |-> Find(docs, filter_query, projection,
                                     IF Truthy(sort) THEN Some(sort) ELSE None,
                                     skip,
                                     IF limit > 0 THEN Some(limit) ELSE None)]

\* mongo_db_query(query_input).  `raises`: the driver raises
mongo_db_query(query_input, raises) ==
    /\ op' = [name |-> "mongo_db_query", input |-> query_input]
    /\ IF current_db_type # "mongo"
       THEN /\ ret' = WrongDbError
            /\ calls' = << >>
            /\ UNCHANGED <<latest_query_result, latest_query_columns>>
       ELSE IF query_input.json = "malformed"
       THEN /\ latest_query_result' = None
            /\ latest_query_columns' = None
            /\ calls' = << >>
            /\ ret' = [kind |-> "error", msg |-> "Invalid JSON in query input"]
       ELSE IF query_input.json = "array"
       THEN /\ latest_query_result' = None
            /\ latest_query_columns' = None
            /\ calls' = << >>
            /\ ret' = [kind |-> "error", msg |-> "Error executing MongoDB query"]
       ELSE LET query_params == query_input.params
            IN  IF "collection" \notin DOMAIN query_params \/ query_params["collection"] = ""
                THEN /\ ret' = [kind |-> "error", msg |-> "Collection name is required"]
                     /\ calls' = << >>
                     /\ UNCHANGED <<latest_query_result, latest_query_columns>>
                ELSE LET r == MongoFetch(query_params)
                         columns == ResultColumns(r.documents,
                                                  Get(query_params, "pipeline", None),
                                                  Get(query_params, "projection", None))
                     IN  /\ calls' = << <<r.call, query_params["collection"]>> >>
                         /\ IF raises
                            THEN /\ latest_query_result' = None
                                 /\ latest_query_columns' = None
                                 /\ ret' = [kind |-> "error", msg |-> "Error executing MongoDB query"]
                            ELSE IF r.documents = << >>
                            THEN /\ latest_query_result' = None
                                 /\ latest_query_columns' = None
                                 /\ ret' = [kind |-> "empty", text |-> "(no documents returned)"]
                            ELSE /\ latest_query_result' = Some([shape |-> "docs", recs |-> r.documents])
                                 /\ latest_query_columns' = Some(columns)
                                 /\ ret' = MongoTable(columns, r.documents)
    /\ UNCHANGED <<current_db_type, available, sql_engine, sql_schema_cache, mongo_schema_cache,
                   now, ticks, data_version, created_text>>
    /\ UNCHANGED inferVars

-----------------------------------------------------------------------------
(* Charts *)

NaN == V("NaN", "nan")

\* the column of a DataFrame built from the documents: NaN where a document
\* lacks the field
DfColumn(recs, col) ==
    [i \in DOMAIN recs |-> IF col \in DOMAIN recs[i] THEN recs[i][col] ELSE NaN]

\* the column of the relational result at position k
RowColumn(recs, k) == [i \in DOMAIN recs |-> recs[i][k]]

\* list(latest_query_columns).index(name), 0 for ValueError
IndexIn(columns, name) ==
    IF \E i \in DOMAIN columns : columns[i] = name
    THEN CHOOSE i \in DOMAIN columns :
            columns[i] = name /\ \A j \in DOMAIN columns : columns[j] = name => i <= j
    ELSE 0

\* the groups: the label values that occur
Groups(labels) == {labels[i].val : i \in {j \in DOMAIN labels : labels[j] # NaN}}

\* occurrences per label (value_counts, label_counts)
CountBy(labels) ==
    [l \in Groups(labels) |-> Cardinality({i \in DOMAIN labels : labels[i] # NaN /\ labels[i].val = l})]

RECURSIVE Addends(_, _, _)
Addends(labels, values, l) ==
    IF labels = << >> THEN << >>
    ELSE (IF Head(labels) # NaN /\ Head(labels).val = l /\ Head(values) # NaN
          THEN <<Head(values).val>> ELSE << >>)
         \o Addends(Tail(labels), Tail(values), l)

\* the sum per label, as the sequence of the values added up
SumBy(labels, values) == [l \in Groups(labels) |-> Addends(labels, values, l)]

NumericStrings == {"21"}

\* float(value) succeeds
Coercible(v) == v.type \in {"int", "float"} \/ (v.type = "str" /\ v.val \in NumericStrings)

\* pandas can add the column up to numbers
Summable(values) == \A i \in DOMAIN values : values[i].type \in {"int", "float", "NaN"}

NoResultsError == [kind |-> "error", msg |-> "No query results available. Run a query first."]

ChartError(msg) == [kind |-> "error", msg |-> msg]

Chart(path, magnitudes) == [kind |-> "chart", path |-> path, magnitudes |-> magnitudes]

\* the data of a chart over the document result with pandas (current_db_type
\* is 'mongo'): the magnitudes, or the error of the enclosing try
FrameData(result, label, value, library_ok) ==
    IF result.shape # "docs" \/ label \notin AllFields(result.recs)
    THEN [error |-> TRUE, where |-> "outer"]
    ELSE IF value = "count"
    THEN [error |-> FALSE, magnitudes |-> CountBy(DfColumn(result.recs, label))]
    ELSE IF value \notin AllFields(result.recs)
    THEN [error |-> TRUE, where |-> "outer"]
    ELSE IF ~Summable(DfColumn(result.recs, value)) /\ ~library_ok
    THEN [error |-> TRUE, where |-> "outer"]
    ELSE [error |-> FALSE,
          magnitudes |-> SumBy(DfColumn(result.recs, label), DfColumn(result.recs, value))]

\* the data of a chart over the relational result (the else branch): the
\* magnitudes, or the error of the inner try
TupleData(result, columns, label, value) ==
    LET idx_labels == IndexIn(columns, label)
        idx_values == IndexIn(columns, value)
    IN  IF idx_labels = 0 \/ result.shape # "rows"
        THEN [error |-> TRUE, where |-> "inner"]
        ELSE IF value = "count"
        THEN [error |-> FALSE, magnitudes |-> CountBy(RowColumn(result.recs, idx_labels))]
        ELSE IF idx_values = 0
                \/ \E i \in DOMAIN result.recs : ~Coercible(result.recs[i][idx_values])
        THEN [error |-> TRUE, where |-> "inner"]
        ELSE [error |-> FALSE,
              magnitudes |-> SumBy(RowColumn(result.recs, idx_labels),
                                   RowColumn(result.recs, idx_values))]

\* the stored result as the chart code reads it; None has no records
StoredResult(value) == IF value = None THEN [shape |-> "none", recs |-> << >>] ELSE value[1]

\* list(latest_query_columns) inside the inner try; None has no index
StoredColumns(value) == IF value = None THEN << >> ELSE value[1]

IsNoneNever(value) == FALSE

\* `latest_query_result is None`
IsNone(value) == value = None

\* `not latest_query_result`
Not(value) == value = None \/ value[1].recs = << >>

ChartColumnInputs(lkey, vkey) ==
    { l @@ v : l \in {NoKey, lkey :> "dept", lkey :> "name"},
               v \in {NoKey, vkey :> "count", vkey :> "age", vkey :> "id"} }

PieInputs ==
    { [json |-> "malformed"] }
    \cup { [json |-> "object", params |-> q] :
             q \in ChartColumnInputs("labels_column", "values_column") }

BarInputs ==
    { [json |-> "malformed"] }
    \cup { [json |-> "object", params |-> q] :
             q \in ChartColumnInputs("x_column", "y_column")
                   \cup { ("labels" :> <<"a", "b">>) @@ ("values" :> <<1, 2>>) } }

\* visualize_pie_chart(tool_input).  `library_ok`: pandas and matplotlib accept
\* a value column that is not numeric
visualize_pie_chart(tool_input, library_ok) ==
    /\ op' = [name |-> "visualize_pie_chart", input |-> tool_input, after |-> AfterEmptyQuery]
    /\ IF IsNone(latest_query_result)
       THEN ret' = NoResultsError /\ calls' = << >>
       ELSE IF tool_input.json = "malformed"
       THEN ret' = ChartError("Error creating pie chart") /\ calls' = << >>
       ELSE LET params == tool_input.params
            IN  IF "labels_column" \notin DOMAIN params \/ "values_column" \notin DOMAIN params
                THEN /\ ret' = [kind |-> "error", msg |-> "'labels_column' and 'values_column' required",
                                available |-> latest_query_columns]
                     /\ calls' = << >>
                ELSE LET d == IF current_db_type = "mongo"
                              THEN FrameData(StoredResult(latest_query_result), params["labels_column"],
                                             params["values_column"], library_ok)
                              ELSE TupleData(StoredResult(latest_query_result),
                                             StoredColumns(latest_query_columns),
                                             params["labels_column"], params["values_column"])
                     IN  IF d.error
                         THEN /\ ret' = ChartError(IF d.where = "inner" THEN "Error processing data"
                                                   ELSE "Error creating pie chart")
                              /\ calls' = << >>
                         ELSE /\ ret' = Chart("pie_chart.png", d.magnitudes)
                              /\ calls' = << <<"savefig", "pie_chart.png">> >>
    /\ UNCHANGED <<current_db_type, available, sql_engine, sql_schema_cache, mongo_schema_cache,
                   latest_query_result, latest_query_columns, now, ticks, data_version,
                   created_text>>
    /\ UNCHANGED inferVars

\* visualize_bar_chart(tool_input).  `library_ok` as for the pie chart, and
\* for value_counts().reset_index() naming its columns 'index' and x_column
visualize_bar_chart(tool_input, library_ok) ==
    /\ op' = [name |-> "visualize_bar_chart", input |-> tool_input, after |-> AfterEmptyQuery]
    /\ IF tool_input.json = "malformed"
       THEN ret' = ChartError("Error creating bar chart") /\ calls' = << >>
       ELSE LET params == tool_input.params
            IN  IF "labels" \in DOMAIN params /\ "values" \in DOMAIN params
                THEN /\ ret' = [kind |-> "chart", path |-> "bar_chart.png",
                                labels |-> params["labels"], values |-> params["values"]]
                     /\ calls' = << <<"savefig", "bar_chart.png">> >>
                ELSE IF Not(latest_query_result)
                THEN ret' = NoResultsError /\ calls' = << >>
                ELSE IF "x_column" \notin DOMAIN params \/ "y_column" \notin DOMAIN params
                THEN /\ ret' = [kind |-> "error", msg |-> "'x_column' and 'y_column' required",
                                available |-> latest_query_columns]
                     /\ calls' = << >>
                ELSE LET d == IF current_db_type = "mongo"
                              THEN IF params["y_column"] = "count" /\ ~library_ok
                                   THEN [error |-> TRUE, where |-> "outer"]
                                   ELSE FrameData(StoredResult(latest_query_result), params["x_column"],
                                                  params["y_column"], library_ok)
                              ELSE TupleData(StoredResult(latest_query_result),
                                             StoredColumns(latest_query_columns),
                                             params["x_column"], params["y_column"])
                     IN  IF d.error
                         THEN /\ ret' = ChartError(IF d.where = "inner" THEN "Error processing data"
                                                   ELSE "Error creating bar chart")
                              /\ calls' = << >>
                         ELSE /\ ret' = Chart("bar_chart.png", d.magnitudes)
                              /\ calls' = << <<"savefig", "bar_chart.png">> >>
    /\ UNCHANGED <<current_db_type, available, sql_engine, sql_schema_cache, mongo_schema_cache,
                   latest_query_result, latest_query_columns, now, ticks, data_version,
                   created_text>>
    /\ UNCHANGED inferVars

-----------------------------------------------------------------------------
(* The query and chart tools *)

InitQuery == InitTools /\ InferIdle

NextQuery ==
    \/ \E query \in SqlStatements, raises \in BOOLEAN, listFails \in BOOLEAN :
          sql_db_query(query, raises, listFails)
    \/ \E query_input \in MongoQueryInputs, raises \in BOOLEAN :
          mongo_db_query(query_input, raises)
    \/ \E tool_input \in PieInputs, library_ok \in BOOLEAN :
          visualize_pie_chart(tool_input, library_ok)
    \/ \E tool_input \in BarInputs, library_ok \in BOOLEAN :
          visualize_bar_chart(tool_input, library_ok)
    \/ \E db_type \in DbTypeInputs : set_current_db_type(db_type)

SpecQuery == InitQuery /\ [][NextQuery]_vars

-----------------------------------------------------------------------------
(* The module-level code that runs at import: connection setup, the
   availability check and the default backend.  `op.at` is the position. *)

At(step) == op.name = "startup" /\ op.at = step

Goto(step) == op' = [name |-> "startup", at |-> step]

\* outcomes of the SQLite fallback: no file, engine created, create_engine raises
SqliteOutcomes == {"missing", "created", "raises"}

StartupFrame ==
    UNCHANGED <<sql_schema_cache, mongo_schema_cache, latest_query_result,
                latest_query_columns, now, ticks, data_version, created_text>>

\* MongoClient(...).server_info() in its try block
MongoConnectionSetup(connects) ==
    /\ At("mongo")
    /\ available' = [available EXCEPT !.mongo = connects]
    /\ calls' = Append(calls, <<"server_info", "mongo">>)
    /\ Goto("sql")
    /\ UNCHANGED <<current_db_type, sql_engine, ret>>
    /\ StartupFrame
    /\ UNCHANGED inferVars

\* the MySQL attempt alone, without the except branch
SqlTargetsPrimaryOnly(mysql_connects, sqlite) ==
    [connected |-> mysql_connects,
     engine |-> IF mysql_connects THEN "mysql" ELSE "none",
     tried |-> << <<"connect", "mysql">> >>]

\* the targets tried by the SQL connection setup and what they give: the
\* MySQL attempt in the try block and, in its except branch, the SQLite file
SqlTargets(mysql_connects, sqlite) ==
    IF mysql_connects
    THEN [connected |-> TRUE, engine |-> "mysql", tried |-> << <<"connect", "mysql">> >>]
    ELSE [connected |-> sqlite = "created",
          engine |-> IF sqlite = "created" THEN "sqlite" ELSE "none",
          tried |-> << <<"connect", "mysql">>, <<"create_engine", "sqlite">> >>]

\* the MySQL attempt and, when it raises, the SQLite fallback
SqlConnectionSetup(mysql_connects, sqlite) ==
    /\ At("sql")
    /\ LET r == SqlTargets(mysql_connects, sqlite)
       IN  /\ available' = IF r.connected THEN [available EXCEPT !.sql = TRUE] ELSE available
           /\ sql_engine' = IF r.connected THEN r.engine ELSE sql_engine
           /\ calls' = calls \o r.tried
    /\ Goto("inspector")
    /\ UNCHANGED <<current_db_type, ret>>
    /\ StartupFrame
    /\ UNCHANGED inferVars

\* inspect(engine), only when the relational backend is available
InspectorSetup(inspects) ==
    /\ At("inspector")
    /\ available' = IF available.sql /\ ~inspects
                    THEN [available EXCEPT !.sql = FALSE]
                    ELSE available
    /\ calls' = IF available.sql
                THEN Append(calls, <<"inspect", IF inspects THEN "returned" ELSE "raised">>)
                ELSE calls
    /\ Goto("check")
    /\ UNCHANGED <<current_db_type, sql_engine, ret>>
    /\ StartupFrame
    /\ UNCHANGED inferVars

NoBackendNever(flags) == FALSE

\* not db_connections['mongo']['available'] and not db_connections['sql']['available']
NoBackend(flags) == ~flags.mongo /\ ~flags.sql

\* sys.exit(1) without a backend, else the default backend; from then on the
\* tools can be called
AvailabilityCheck ==
    /\ At("check")
    /\ IF NoBackend(available)
       THEN /\ ret' = [kind |-> "exit", code |-> 1]
            /\ Goto("exited")
            /\ UNCHANGED current_db_type
       ELSE /\ current_db_type' = IF available.mongo THEN "mongo" ELSE "sql"
            /\ op' = [name |-> "start"]
            /\ UNCHANGED ret
    /\ UNCHANGED <<available, sql_engine, calls>>
    /\ StartupFrame
    /\ UNCHANGED inferVars

\* the globals as the module defines them, before any connection attempt
InitStartup ==
    /\ available = [mongo |-> FALSE, sql |-> FALSE]
    /\ sql_engine = "none"
    /\ current_db_type = "none"
    /\ sql_schema_cache = << >>
    /\ mongo_schema_cache = << >>
    /\ latest_query_result = None
    /\ latest_query_columns = None
    /\ now = 0
    /\ ticks = 0
    /\ data_version = 1
    /\ op = [name |-> "startup", at |-> "mongo"]
    /\ ret = [kind |-> "none"]
    /\ calls = << >>
    /\ created_text = [sql |-> << >>, mongo |-> << >>]
    /\ InferIdle

\* the tools are registered after the module-level code has run
Serving == op.name # "startup"

NextStartup ==
    \/ \E connects \in BOOLEAN : MongoConnectionSetup(connects)
    \/ \E mysql_connects \in BOOLEAN, sqlite \in SqliteOutcomes :
          SqlConnectionSetup(mysql_connects, sqlite)
    \/ \E inspects \in BOOLEAN : InspectorSetup(inspects)
    \/ AvailabilityCheck
    \/ (Serving /\ NextQuery)

SpecStartup == InitStartup /\ [][NextStartup]_vars

-----------------------------------------------------------------------------
(* Properties of the query executors and of the charts *)

QueryTools == {"sql_db_query", "mongo_db_query"}

ChartTools == {"visualize_pie_chart", "visualize_bar_chart"}

\* the last call made the backend call `name`
Called(name) == \E i \in DOMAIN calls : calls[i][1] = name

\* the last call was mongo_db_query with a JSON object naming a collection
MongoRequest ==
    /\ op.name = "mongo_db_query"
    /\ op.input.json = "object"
    /\ "collection" \in DOMAIN op.input.params
    /\ op.input.params["collection"] # ""

\* the number of documents the last query returned
Returned == IF ret.kind = "table" THEN Len(ret.rows) ELSE 0

\* C2: every call of a query executor overwrites QueryResult: after a
\* non-empty result both fields hold that query's output, after a call that
\* fails for any reason both are None.
C2_QueryResultOverwritten ==
    op.name \in QueryTools =>
        /\ ret.kind = "table" =>
              /\ latest_query_result # None
              /\ latest_query_columns = Some(ret.header)
              /\ Len(latest_query_result[1].recs) = Len(ret.rows)
        /\ ret.kind \in {"error", "exception"} =>
              /\ latest_query_result = None
              /\ latest_query_columns = None

\* C3: a statement that has one of the denied keywords as a whole word, in
\* any letter case, is rejected by sql_db_query and never reaches the
\* connection.
C3_DangerousStatementRejected ==
    (op.name = "sql_db_query" /\ HasDangerousWord(op.input)) =>
        /\ ret.kind = "error"
        /\ ~Called("execute")

\* C4: a pipeline with a stage whose key is a write operation is rejected by
\* mongo_db_query and never passed to collection.aggregate.
C4_WritePipelineRejected ==
    ( /\ MongoRequest
      /\ "pipeline" \in DOMAIN op.input.params
      /\ \E i \in DOMAIN op.input.params["pipeline"] :
            op.input.params["pipeline"][i].stage \in WriteStages )
    => /\ ret.kind = "error"
       /\ ~Called("aggregate")

\* a chart request that is to plot the query result
PlotsQueryResult ==
    /\ op.name \in ChartTools
    /\ op.input.json = "object"
    /\ ~("labels" \in DOMAIN op.input.params /\ "values" \in DOMAIN op.input.params)

Matching ==
    LET docs == MongoDocs(op.input.params["collection"], data_version)
    IN  Cardinality({i \in DOMAIN docs :
           \/ "filter" \notin DOMAIN op.input.params
           \/ ( /\ op.input.params["filter"].field \in DOMAIN docs[i]
                /\ docs[i][op.input.params["filter"].field].val
                      = op.input.params["filter"].value )})

Skipped == IF "skip" \in DOMAIN op.input.params THEN op.input.params["skip"] ELSE 0

AfterSkip == IF Matching > Skipped THEN Matching - Skipped ELSE 0

C7_PipelineKeyMeansAggregate ==
    ( /\ MongoRequest
      /\ ret.kind \in {"table", "empty"} )
    => /\ "pipeline" \in DOMAIN op.input.params =>
             /\ Called("aggregate")
             /\ Returned = Len(Aggregate(MongoDocs(op.input.params["collection"], data_version),
                                         op.input.params["pipeline"]))
       /\ Called("find") => "pipeline" \notin DOMAIN op.input.params

\* the projection of the request asks for `_id`
IdRequested ==
    /\ "projection" \in DOMAIN op.input.params
    /\ "_id" \in DOMAIN op.input.params["projection"]
    /\ op.input.params["projection"]["_id"] = 1

Increasing(columns) ==
    \A i, j \in DOMAIN columns : i < j => CodePoint(columns[i]) < CodePoint(columns[j])

\* C8 as stated: the columns are the sorted union of the keys of the returned
\* documents, without `_id` unless the projection asked for it, for a find
\* and for an aggregation alike.
C8_ColumnsWithoutIdUnlessProjected ==
    (MongoRequest /\ ret.kind = "table") =>
        /\ latest_query_columns = Some(ret.header)
        /\ Increasing(ret.header)
        /\ Range(ret.header) =
              IF IdRequested THEN AllFields(latest_query_result[1].recs)
              ELSE AllFields(latest_query_result[1].recs) \ {"_id"}

\* C8 amended: the columns are the sorted union of the keys of the returned
\* documents; `_id` is left out when the request was run as a find and its
\* projection does not name `_id`, and kept when it was run as an aggregation.
C8_ColumnsOfFindAndAggregate ==
    (MongoRequest /\ ret.kind = "table") =>
        /\ latest_query_columns = Some(ret.header)
        /\ Increasing(ret.header)
        /\ Range(ret.header) =
              IF Called("find") /\ ~IdRequested
              THEN AllFields(latest_query_result[1].recs) \ {"_id"}
              ELSE AllFields(latest_query_result[1].recs)

\* an aggregation whose documents have `_id` shows the column `_id`
C8_Witness ==
    /\ MongoRequest
    /\ ret.kind = "table"
    /\ Called("aggregate")
    /\ "projection" \notin DOMAIN op.input.params
    /\ "_id" \in Range(ret.header)
    /\ Len(ret.header) > 1

-----------------------------------------------------------------------------
(* Properties of the error handling of the tools *)

\* a tool was called
ToolRan == op.name \notin {"start", "startup"}

\* C11: every tool call returns a text for every input and every backend
\* outcome, also when the backend fails while the error text is being built;
\* no exception leaves a tool.
C11_NoExceptionLeavesTool == ToolRan => ret.kind # "exception"

\* the last call was sql_db_query, on the relational backend, with a statement
\* that passed the prefix test
SelectRan ==
    /\ op.name = "sql_db_query"
    /\ current_db_type = "sql"
    /\ StartsWithSelect(op.input)

\* C12: a SELECT statement is executed even when a table it names after
\* FROM/JOIN is not in the live table list; whenever the execution fails, the
\* returned error text has the full list of available tables and names every
\* extracted table that is not in that list.
C12_FailedQueryNamesUnknownTables ==
    SelectRan =>
        /\ Called("execute")
        /\ ret.kind \notin {"table", "empty"} =>
              /\ ret.kind = "error"
              /\ ret.available_tables = SqlTables
              /\ Range(ret.missing_tables) = Range(QueryTables(op.input)) \ Range(SqlTables)

C14_DateFunctionRejectedOnSqlite ==
    ( /\ op.name = "sql_db_query"
      /\ current_db_type = "sql"
      /\ sql_engine = "sqlite"
      /\ HasDateFunction(op.input) )
    => /\ ret.kind = "error"
       /\ ret.msg = "Function not supported in SQLite"
       /\ ~Called("execute")

-----------------------------------------------------------------------------
(* Properties of the charts *)

LiteralData ==
    /\ op.input.json = "object"
    /\ "labels" \in DOMAIN op.input.params
    /\ "values" \in DOMAIN op.input.params

\* C15: while QueryResult is absent, a pie or bar chart request that names
\* result columns returns the run-a-query-first error and saves no image; only
\* a bar chart with literal labels and values renders without a QueryResult.
C15_NoChartWithoutResult ==
    (op.name \in ChartTools /\ latest_query_result = None) =>
        /\ PlotsQueryResult =>
              /\ ret.kind = "error"
              /\ ret.msg = "No query results available. Run a query first."
              /\ ~Called("savefig")
        /\ (ret.kind = "chart" \/ Called("savefig")) =>
              (op.name = "visualize_bar_chart" /\ LiteralData)

\* a pie chart over two columns was asked for before any query had a result
C15_Witness ==
    /\ op.name = "visualize_pie_chart"
    /\ latest_query_result = None
    /\ ~op.after
    /\ op.input.json = "object"
    /\ DOMAIN op.input.params = {"labels_column", "values_column"}
    /\ ret.kind = "error"
    /\ ret.msg = "No query results available. Run a query first."
    /\ calls = << >>

\* the grouping column and the value column the last chart request names
GroupingColumn ==
    Get(op.input.params, IF op.name = "visualize_pie_chart" THEN "labels_column" ELSE "x_column", "")

ValueColumn ==
    Get(op.input.params, IF op.name = "visualize_pie_chart" THEN "values_column" ELSE "y_column", "")

\* a chart over QueryResult was asked for, QueryResult being the non-empty
\* result of a query on the current backend, with the grouping column in it
ChartOverResult ==
    /\ PlotsQueryResult
    /\ latest_query_result # None
    /\ latest_query_result[1].shape = (IF current_db_type = "sql" THEN "rows" ELSE "docs")
    /\ GroupingColumn \in Range(latest_query_columns[1])

\* the value of the grouping column per record; NaN where a document lacks it
GroupingValues ==
    IF latest_query_result[1].shape = "rows"
    THEN RowColumn(latest_query_result[1].recs, IndexIn(latest_query_columns[1], GroupingColumn))
    ELSE DfColumn(latest_query_result[1].recs, GroupingColumn)

RECURSIVE Total(_)
Total(f) ==
    IF DOMAIN f = {} THEN 0
    ELSE LET k == CHOOSE k \in DOMAIN f : TRUE
         IN  f[k] + Total([j \in DOMAIN f \ {k} |-> f[j]])

\* C16: with the value column "count", the chart has one magnitude per
\* distinct value of the grouping column, the number of records with that
\* value, and the magnitudes add up to the number of records; for relational
\* and for document results.
C16_CountChart ==
    (op.name \in ChartTools /\ ChartOverResult /\ ValueColumn = "count") =>
        /\ ret.kind = "chart"
        /\ DOMAIN ret.magnitudes = {GroupingValues[i].val : i \in DOMAIN GroupingValues} \ {"nan"}
        /\ \A l \in DOMAIN ret.magnitudes :
              ret.magnitudes[l] =
                 Cardinality({i \in DOMAIN GroupingValues : GroupingValues[i].val = l})
        /\ Total(ret.magnitudes) = Len(latest_query_result[1].recs)

\* the value of the value column per record; NaN where a document lacks it
ValueValues ==
    IF latest_query_result[1].shape = "rows"
    THEN RowColumn(latest_query_result[1].recs, IndexIn(latest_query_columns[1], ValueColumn))
    ELSE DfColumn(latest_query_result[1].recs, ValueColumn)

\* the values of group l that can be coerced to a number, in record order;
\* the others count as zero
RECURSIVE CoercedAddends(_, _, _)
CoercedAddends(labels, values, l) ==
    IF labels = << >> THEN << >>
    ELSE (IF Head(labels) # NaN /\ Head(labels).val = l /\ Coercible(Head(values))
          THEN <<Head(values).val>> ELSE << >>)
         \o CoercedAddends(Tail(labels), Tail(values), l)

\* C17: with a value column other than "count", the chart has per group the
\* sum of the value column, a value that is not numeric being coerced or
\* counted as zero; the request fails only when no value of the column can be
\* coerced.
C17_SumChartCoerces ==
    ( /\ op.name \in ChartTools
      /\ ChartOverResult
      /\ ValueColumn # "count"
      /\ ValueColumn \in Range(latest_query_columns[1]) )
    => IF \E i \in DOMAIN ValueValues : Coercible(ValueValues[i])
       THEN /\ ret.kind = "chart"
            /\ DOMAIN ret.magnitudes = {GroupingValues[i].val : i \in DOMAIN GroupingValues} \ {"nan"}
            /\ \A l \in DOMAIN ret.magnitudes :
                  ret.magnitudes[l] = CoercedAddends(GroupingValues, ValueValues, l)
       ELSE ret.kind = "error"

-----------------------------------------------------------------------------
(* Properties of the result tables *)

\* C18: the table returned for a non-empty record set has one header line
\* with one cell per column, one separator line, and as many body lines as
\* there are records, each with one cell per column; a document without a
\* column has an empty cell there.
C18_TableShape ==
    (op.name \in QueryTools /\ ret.kind = "table") =>
        LET records == latest_query_result[1].recs
            columns == latest_query_columns[1]
        IN  /\ Len(ret.header) = Len(columns)
            /\ Len(ret.separator) = Len(columns)
            /\ Len(ret.rows) = Len(records)
            /\ \A r \in DOMAIN ret.rows :
                  /\ Len(ret.rows[r]) = Len(columns)
                  /\ \A c \in DOMAIN columns :
                        (latest_query_result[1].shape = "docs" /\ columns[c] \notin DOMAIN records[r])
                           => ret.rows[r][c].s = ""
            /\ OutputLines(ret) - 2 = Len(records)

-----------------------------------------------------------------------------
(* Properties of batch schema requests *)

\* the prober was called for name n by the last call and did not get through
ProbeFailed(n) ==
    \/ /\ <<"get_columns", n>> \in Range(calls)
       /\ <<"execute_sample", n>> \notin Range(calls)
    \/ <<"find_sample_raised", n>> \in Range(calls)

\* the last call was a schema request on the current backend whose table
\* listing, if any, went through
SchemaRequest(kind) ==
    /\ op.name = SchemaTool(kind)
    /\ current_db_type = kind
    /\ ~(ret.kind = "error" /\ ret.msg = "General error with SQL schema extraction")

\* the returned text has an error for name n, at position i when it is a batch
ErrorFor(n, i) ==
    \/ /\ ret.kind = "text"
       /\ IF op.name = "sql_db_schema"
          THEN ret.parts[i] = << <<"Error with table", n, "Error caching schema for table">> >>
          ELSE ret.parts[i] = [collection |-> n, error |-> "Error caching schema for collection"]
    \/ /\ ret.kind = "error"
       /\ ret.msg = "tables do not exist"
       /\ n \in Range(ret.invalid)

\* the returned text has the schema of name n at position i
SchemaFor(n, i) ==
    /\ ret.kind = "text"
    /\ IF op.name = "sql_db_schema"
       THEN ret.parts[i][1] = <<"TABLE:", n>>
       ELSE ret.parts[i].collection = n /\ "error" \notin DOMAIN ret.parts[i]

\* C19: in a schema request for several names, a name that is unknown or
\* whose probe fails gets an error entry of its own, and the same output has
\* the schema of every other name.
C19_BatchSchemaPartialFailure ==
    \A kind \in {"sql", "mongo"} :
        SchemaRequest(kind) =>
            \A i \in DOMAIN op.input :
                LET n == op.input[i]
                IN  IF ProbeFailed(n) \/ (kind = "sql" /\ n \notin Range(SqlTables))
                    THEN ErrorFor(n, i)
                    ELSE SchemaFor(n, i)

-----------------------------------------------------------------------------
(* Properties of the statement gate of sql_db_query *)

\* the first word of the last statement, in upper case; "" when the statement
\* is blank
FirstWord ==
    LET i == SkipBlanks(op.input, 1)
    IN  IF i <= Len(op.input) THEN Upper(op.input[i]) ELSE ""

\* C20: a statement that, without its surrounding blanks and in any letter
\* case, does not begin with SELECT is rejected by sql_db_query: no connection
\* is opened and nothing is executed.
C20_OnlySelectIsExecuted ==
    (op.name = "sql_db_query" /\ FirstWord # "SELECT") =>
        /\ ret.kind = "error"
        /\ calls = << >>
        /\ current_db_type = "sql" => ret.msg = "Only SELECT queries are allowed"

\* DROP TABLE t was rejected on the relational backend
C20_Witness ==
    /\ op.name = "sql_db_query"
    /\ current_db_type = "sql"
    /\ FirstWord = "DROP"
    /\ ret = [kind |-> "error", msg |-> "Only SELECT queries are allowed"]
    /\ calls = << >>

-----------------------------------------------------------------------------
(* Properties of startup and of backend selection *)

\* the number of times the startup code tried target `target`
Tried(target) == Cardinality({i \in DOMAIN calls : calls[i][2] = target
                                                   /\ calls[i][1] \in {"connect", "create_engine"}})

\* the SQL connection setup has run and no tool has been called yet
AfterSqlSetup == At("inspector") \/ At("check") \/ At("exited") \/ op.name = "start"

\* C21: startup tries MySQL exactly once and, when that fails, the SQLite file
\* exactly once; the relational backend is unavailable only if both failed or
\* the inspector could not be made; no tool call changes an availability flag.
C21_StartupFallback ==
    /\ [](AfterSqlSetup =>
             /\ Tried("mysql") = 1
             /\ Tried("sqlite") = (IF sql_engine = "mysql" THEN 0 ELSE 1)
             /\ ~available.sql =>
                   \/ sql_engine = "none"
                   \/ <<"inspect", "raised">> \in Range(calls))
    /\ [][Serving => available' = available]_vars

\* MySQL failed, the SQLite file was there, and the tools run on SQLite
C21_Witness ==
    /\ op.name = "start"
    /\ calls = << <<"server_info", "mongo">>, <<"connect", "mysql">>,
                  <<"create_engine", "sqlite">>, <<"inspect", "returned">> >>
    /\ sql_engine = "sqlite"
    /\ available.sql

-----------------------------------------------------------------------------
(* Properties of the cells of a result table *)

\* the values behind the cells of the last table, row by row in column order
CellValues ==
    LET result == latest_query_result[1]
        columns == latest_query_columns[1]
    IN  [r \in DOMAIN result.recs |->
           [c \in DOMAIN columns |->
              IF result.shape = "rows" THEN Some(result.recs[r][c])
              ELSE IF columns[c] \in DOMAIN result.recs[r] THEN Some(result.recs[r][columns[c]])
              ELSE None]]

-----------------------------------------------------------------------------
(* Properties of the keys of the schema caches *)

\* C23: every key of the relational schema cache is the name of an existing
\* table and every key of the document schema cache is the name of an existing
\* collection, whatever names the schema tools are called with.
C23_CacheKeysExist ==
    /\ DOMAIN sql_schema_cache \subseteq Range(SqlTables)
    /\ DOMAIN mongo_schema_cache \subseteq MongoCollections

-----------------------------------------------------------------------------
(* Properties of the current backend *)

\* the backend a requested name stands for, None for a name of no backend
Requested(db_type) ==
    CASE db_type \in {"mongo"}      -> Some("mongo")
      [] db_type \in {"sql", "SQL"} -> Some("sql")
      [] OTHER                      -> None

-----------------------------------------------------------------------------
(* Properties of QueryResult *)

\* C25: whenever a chart tool reads a non-empty QueryResult to plot two of its
\* columns, the records are those of the backend that current_db_type names:
\* documents when it is 'mongo', rows with a column list when it is 'sql'.
C25_ChartReadsCurrentBackendResult ==
    (PlotsQueryResult /\ latest_query_result # None
                      /\ GroupingColumn # "" /\ ValueColumn # "") =>
        latest_query_result[1].shape = (IF current_db_type = "mongo" THEN "docs" ELSE "rows")

\* C26: latest_query_result and latest_query_columns are both absent or both
\* present; when present, the result has at least one record and the columns
\* are those of that result: one name per value of every row, or the sorted
\* keys of the documents (with or without `_id`).
C26_ResultAndColumnsTogether ==
    /\ (latest_query_result = None) <=> (latest_query_columns = None)
    /\ latest_query_result # None =>
          LET result == latest_query_result[1]
              columns == latest_query_columns[1]
          IN  /\ result.recs # << >>
              /\ result.shape = "rows" =>
                    \A i \in DOMAIN result.recs : Len(result.recs[i]) = Len(columns)
              /\ result.shape = "docs" =>
                    /\ Increasing(columns)
                    /\ Range(columns) \in {AllFields(result.recs), AllFields(result.recs) \ {"_id"}}
              /\ op.name \in QueryTools /\ ret.kind = "table" => columns = ret.header

\* a statement returned three columns of two or more rows and both fields
\* hold them
C26_Witness ==
    /\ op.name = "sql_db_query"
    /\ ret.kind = "table"
    /\ latest_query_result # None
    /\ latest_query_columns # None
    /\ Len(StoredColumns(latest_query_columns)) = 3
    /\ Len(StoredResult(latest_query_result).recs) >= 2

-----------------------------------------------------------------------------
(* The tools that only read: list, checker, count and capability tools *)

KeepsStateButResult ==
    /\ latest_query_result' = None
    /\ latest_query_columns' = None
    /\ UNCHANGED <<current_db_type, available, sql_engine, sql_schema_cache, mongo_schema_cache,
                   now, ticks, data_version, created_text>>
    /\ UNCHANGED inferVars

\* these tools have no `global` statement and assign no module variable
KeepsState ==
    /\ UNCHANGED <<current_db_type, available, sql_engine, sql_schema_cache, mongo_schema_cache,
                   latest_query_result, latest_query_columns, now, ticks, data_version,
                   created_text>>
    /\ UNCHANGED inferVars

\* mongo_db_list_collections(tool_input).  `raises`: the driver raises
mongo_db_list_collections(raises) ==
    /\ op' = [name |-> "mongo_db_list_collections", input |-> ""]
    /\ IF WrongBackend("mongo")
       THEN ret' = WrongDbError /\ calls' = << >>
       ELSE /\ calls' = << <<"list_collection_names", "">> >>
            /\ ret' = IF raises
                      THEN [kind |-> "error", msg |-> "Error listing MongoDB collections"]
                      ELSE [kind |-> "text", parts |-> MongoCollections]
    /\ KeepsState

CheckerRequests ==
    { [json |-> "malformed"], [json |-> "array"],
      [json |-> "object", params |-> "gt" :> 1],
      [json |-> "object", params |-> "filter" :> DeptIsCs] }

\* mongo_query_checker(query_str)
mongo_query_checker(query_str) ==
    /\ op' = [name |-> "mongo_query_checker", input |-> query_str]
    /\ calls' = << >>
    /\ IF WrongBackend("mongo")
       THEN ret' = WrongDbError
       ELSE IF query_str.json = "malformed"
       THEN ret' = [kind |-> "error", msg |-> "Invalid JSON in query"]
       ELSE IF query_str.json = "array"
       THEN ret' = [kind |-> "error", msg |-> "Error checking MongoDB query"]
       ELSE IF \E key \in DOMAIN query_str.params : key \in {"gt", "gte", "lt", "lte", "eq", "ne", "in", "nin"}
       THEN ret' = [kind |-> "text", parts |-> <<"Warning">>]
       ELSE ret' = [kind |-> "text", parts |-> <<"json", query_str.params>>]
    /\ KeepsState

CountRequests ==
    { [json |-> "malformed"], [json |-> "array"],
      [json |-> "object", params |-> "filter" :> DeptIsCs],
      [json |-> "object", params |-> "collection" :> "students"],
      [json |-> "object", params |-> ("collection" :> "students") @@ ("filter" :> DeptIsCs)] }

\* mongo_count_documents(tool_input).  `raises`: the driver raises
mongo_count_documents(tool_input, raises) ==
    /\ op' = [name |-> "mongo_count_documents", input |-> tool_input]
    /\ IF WrongBackend("mongo")
       THEN ret' = WrongDbError /\ calls' = << >>
       ELSE IF tool_input.json = "malformed"
       THEN /\ ret' = [kind |-> "error", msg |-> "Invalid JSON in count input"]
            /\ calls' = << >>
       ELSE IF tool_input.json = "array"
       THEN /\ ret' = [kind |-> "error", msg |-> "Error counting MongoDB documents"]
            /\ calls' = << >>
       ELSE LET params == tool_input.params
                collection_name == Get(params, "collection", "")
                filter_query == Get(params, "filter", [k |-> "all"])
            IN  IF collection_name = ""
                THEN /\ ret' = [kind |-> "error", msg |-> "Collection name is required"]
                     /\ calls' = << >>
                ELSE /\ calls' = << <<"count_documents", collection_name>> >>
                     /\ ret' = IF raises
                               THEN [kind |-> "error", msg |-> "Error counting MongoDB documents"]
                               ELSE [kind |-> "text",
                                     parts |-> <<Len(Find(MongoDocs(collection_name, data_version),
                                                          filter_query, None, None, 0, None))>>]
    /\ KeepsState

\* sql_db_list_tables(tool_input).  `raises`: the inspector raises
sql_db_list_tables(raises) ==
    /\ op' = [name |-> "sql_db_list_tables", input |-> ""]
    /\ IF WrongBackend("sql")
       THEN ret' = WrongDbError /\ calls' = << >>
       ELSE /\ calls' = << <<"get_table_names", "">> >>
            /\ ret' = IF raises
                      THEN [kind |-> "error", msg |-> "Error listing SQL tables"]
                      ELSE IF SqlTables = << >>
                      THEN [kind |-> "text", parts |-> <<"No tables found in database.">>]
                      ELSE [kind |-> "text", parts |-> SqlTables]
    /\ KeepsState

CheckerStatements ==
    { << >>, <<" ">>,
      <<"SELECT", " ", "name", " ", "FROM", " ", "t">>,
      <<"SELECT", " ", "name", " ", "FROM", " ", "missing">>,
      <<"DROP", " ", "TABLE", " ", "t">>,
      <<"SELECT", " ", "year", " ", "(", "id", ")", " ", "FROM", " ", "t">> }

\* sql_db_query_checker(query); it has no try block.  `listFails`:
\* inspector.get_table_names() raises
sql_db_query_checker(query, listFails) ==
    /\ op' = [name |-> "sql_db_query_checker", input |-> query]
    /\ IF WrongBackend("sql")
       THEN ret' = WrongDbError /\ calls' = << >>
       ELSE IF Strip(query) = << >>
       THEN ret' = [kind |-> "error", msg |-> "Empty query provided"] /\ calls' = << >>
       ELSE IF HasDangerousWord(query)
       THEN /\ ret' = [kind |-> "error", msg |-> "Potentially dangerous operation detected"]
            /\ calls' = << >>
       ELSE IF sql_engine = "sqlite" /\ HasDateFunction(query)
       THEN /\ ret' = [kind |-> "error", msg |-> "Function not supported in SQLite"]
            /\ calls' = << >>
       ELSE /\ calls' = << <<"get_table_names", "">> >>
            /\ ret' = IF listFails
                      THEN [kind |-> "exception"]
                      ELSE LET missing_tables == SelectSeq(QueryTables(query),
                                                           LAMBDA t : t \notin Range(SqlTables))
                           IN  IF missing_tables # << >>
                               THEN [kind |-> "error", msg |-> "The following tables do not exist",
                                     missing_tables |-> missing_tables,
                                     available_tables |-> SqlTables]
                               ELSE [kind |-> "text", parts |-> <<"sql", query>>]
    /\ KeepsState

\* get_sql_db_capabilities()
get_sql_db_capabilities ==
    /\ op' = [name |-> "get_sql_db_capabilities", input |-> ""]
    /\ calls' = << >>
    /\ ret' = IF WrongBackend("sql")
              THEN WrongDbError
              ELSE [kind |-> "text",
                    parts |-> <<CASE sql_engine = "sqlite" -> "Database: SQLite"
                                  [] sql_engine = "mysql"  -> "Database: MySQL"
                                  [] OTHER                 -> "Generic SQL capabilities">>]
    /\ KeepsState

\* all the tools of the list `tools`, with one request per query and chart tool
NextAllTools ==
    \/ \E db_type \in DbTypeInputs : set_current_db_type(db_type)
    \/ \E raises \in BOOLEAN : mongo_db_list_collections(raises)
    \/ \E fails \in SUBSET {"students"} : mongo_db_schema(<<"students">>, fails)
    \/ \E query_str \in CheckerRequests : mongo_query_checker(query_str)
    \/ \E raises \in BOOLEAN : mongo_db_query([json |-> "object", params |-> "collection" :> "students"], raises)
    \/ \E tool_input \in CountRequests, raises \in BOOLEAN : mongo_count_documents(tool_input, raises)
    \/ \E raises \in BOOLEAN : sql_db_list_tables(raises)
    \/ \E fails \in SUBSET {"t"} : sql_db_schema(<<"t">>, FALSE, fails)
    \/ \E query \in CheckerStatements, listFails \in BOOLEAN : sql_db_query_checker(query, listFails)
    \/ \E raises \in BOOLEAN : sql_db_query(<<"select", " ", "id", ",", " ", "name", ",", " ", "age", " ", "from", " ", "t">>,
                       raises, FALSE)
    \/ get_sql_db_capabilities
    \/ \E library_ok \in BOOLEAN : visualize_pie_chart([json |-> "object",
                               params |-> ("labels_column" :> "name") @@ ("values_column" :> "count")],
                              library_ok)
    \/ \E library_ok \in BOOLEAN : visualize_bar_chart([json |-> "object",
                               params |-> ("x_column" :> "name") @@ ("y_column" :> "count")],
                              library_ok)

SpecAllTools == InitQuery /\ [][NextAllTools]_vars

-----------------------------------------------------------------------------
(* Properties of all the tools *)

MongoTools == {"mongo_db_list_collections", "mongo_db_schema", "mongo_query_checker",
               "mongo_db_query", "mongo_count_documents"}

SqlTools == {"sql_db_list_tables", "sql_db_schema", "sql_db_query_checker",
             "sql_db_query", "get_sql_db_capabilities"}

\* C27: a call of any tool but the two query executors (the list, schema,
\* checker, count and capability tools, set_current_db_type and the chart
\* tools) leaves latest_query_result and latest_query_columns as they were.
C27_OnlyQueryToolsWriteResult ==
    [][op'.name \notin QueryTools =>
          UNCHANGED <<latest_query_result, latest_query_columns>>]_vars

\* the documents of a query are still stored after a count of the collection
C27_Witness ==
    /\ op.name = "mongo_count_documents"
    /\ ret = [kind |-> "text", parts |-> <<7>>]
    /\ latest_query_result # None
    /\ StoredResult(latest_query_result).shape = "docs"
    /\ latest_query_columns # None

\* C28: a tool of the document store called while current_db_type is 'sql',
\* or a tool of the relational backend called while it is 'mongo', returns the
\* wrong-backend error, calls neither backend and leaves QueryResult, both
\* schema caches and current_db_type as they were.
C28_WrongBackendCallChangesNothing ==
    [][(\/ op'.name \in MongoTools /\ current_db_type = "sql"
        \/ op'.name \in SqlTools /\ current_db_type = "mongo") =>
          /\ ret' = WrongDbError
          /\ calls' = << >>
          /\ UNCHANGED <<latest_query_result, latest_query_columns, sql_schema_cache,
                         mongo_schema_cache, current_db_type>>]_vars

\* the relational schema tool was refused on the document backend while a
\* result and a cached collection schema were there
C28_Witness ==
    /\ op.name = "sql_db_schema"
    /\ ret = WrongDbError
    /\ calls = << >>
    /\ current_db_type = "mongo"
    /\ latest_query_result # None
    /\ "students" \in DOMAIN mongo_schema_cache

-----------------------------------------------------------------------------
(* Properties of a failed schema probe *)

\* the backend calls `made` have a probe of name n that raised
ProbeFailedIn(n, made) ==
    \/ /\ <<"get_columns", n>> \in Range(made)
       /\ <<"execute_sample", n>> \notin Range(made)
    \/ <<"find_sample_raised", n>> \in Range(made)

\* the entry of name n in a cache, None when it has none
EntryOf(cache, n) == IF n \in DOMAIN cache THEN Some(cache[n]) ELSE None

\* C29: a schema probe that fails with a backend exception creates and changes
\* no cache entry of that name, an error is never stored as an entry, and the
\* next schema request for that name probes the backend again.
C29_FailedProbeNotCached ==
    /\ [](\A kind \in {"sql", "mongo"} : \A n \in DOMAIN SchemaCache(kind) :
             /\ "error" \notin DOMAIN SchemaCache(kind)[n]
             /\ "timestamp" \in DOMAIN SchemaCache(kind)[n])
    /\ [][\A kind \in {"sql", "mongo"} : \A n \in CacheNames(kind) :
             ( /\ op'.name = SchemaTool(kind)
               /\ now' = now
               /\ n \in Range(op'.input)
               /\ ProbeFailedIn(n, calls') )
             => EntryOf(SchemaCache(kind), n)' = EntryOf(SchemaCache(kind), n)]_vars
    /\ [][\A kind \in {"sql", "mongo"} : \A n \in CacheNames(kind) :
             ( /\ op.name = SchemaTool(kind)
               /\ n \in Range(op.input)
               /\ ProbeFailedIn(n, calls)
               /\ op'.name = SchemaTool(kind)
               /\ now' = now
               /\ n \in Range(op'.input) )
             => ProberCalled(n, calls')]_vars

-----------------------------------------------------------------------------
(* The modular entry point: run.py calls main() of src/main.py.  The position
   in main and its local variables are the fields of op. *)

InMain(step) == op.name = "main" /\ op.at = step

\* main's locals: the wrapper's attributes, database_context, and the tools
\* read so far
MainGoto(step, wrapper, context, tools) ==
    op' = [name |-> "main", at |-> step, wrapper |-> wrapper,
           database_context |-> context, tools |-> tools]

MainFrame ==
    /\ UNCHANGED <<current_db_type, available, sql_schema_cache, mongo_schema_cache,
                   latest_query_result, latest_query_columns, now, ticks, data_version,
                   created_text>>
    /\ UNCHANGED inferVars

\* initialize_connection(): MySQL, else SQLite when its file exists, then the
\* inspector; sys.exit(1) is not an Exception and leaves main
initialize_connection(mysql_connects, sqlite, inspects) ==
    /\ InMain("connect")
    /\ LET r == SqlTargets(mysql_connects, sqlite)
           made == calls \o r.tried
                   \o (IF r.connected
                       THEN << <<"inspect", IF inspects THEN "returned" ELSE "raised">> >>
                       ELSE << >>)
       IN  /\ calls' = made
           /\ IF r.connected /\ inspects
              THEN /\ sql_engine' = r.engine
                   /\ ret' = ret
                   /\ MainGoto("wrapper", {}, None, << >>)
              ELSE /\ sql_engine' = (IF r.connected THEN r.engine ELSE sql_engine)
                   /\ ret' = [kind |-> "exit", code |-> 1, message |-> "initialize_connection"]
                   /\ MainGoto("exited", {}, None, << >>)
    /\ MainFrame

\* the methods of class SqlToolsWithConnection
WrapperAttributes ==
    {"sql_db_list_tables", "sql_db_schema", "sql_db_query_checker", "sql_db_query",
     "get_db_capabilities"}

\* create_tools_with_connection(sql_tools, engine, inspector)
create_tools_with_connection ==
    /\ InMain("wrapper")
    /\ MainGoto("context", WrapperAttributes, None, << >>)
    /\ UNCHANGED <<sql_engine, ret, calls>>
    /\ MainFrame

\* one part of the context per table: its schema and three sample rows, or
\* the error text of the inner except
ContextPart(table, fails) ==
    IF table \in fails
    THEN [table |-> table, error |-> TRUE]
    ELSE [table |-> table, error |-> FALSE,
          create_sql |-> CreateSql(table, SqlColumns(table)),
          sample |-> SampleStr(SqlColumns(table), Limit(SqlRows(table, data_version), 3))]

\* build_database_context(engine, inspector): it catches every Exception and
\* returns a text, the error text when get_table_names() raises
build_database_context(listFails, fails) ==
    /\ InMain("context")
    /\ calls' = calls \o << <<"get_table_names", "">> >>
    /\ MainGoto("tools", op.wrapper,
                Some(IF listFails
                     THEN << [error |-> TRUE] >>
                     ELSE [i \in DOMAIN SqlTables |-> ContextPart(SqlTables[i], fails)]),
                << >>)
    /\ UNCHANGED <<sql_engine, ret>>
    /\ MainFrame

\* the attribute paths setup_agent_tools reads from its argument sql_tools, in
\* the order of the list
ToolReads ==
    << <<"sql_db_list_tables">>, <<"sql_db_schema">>, <<"sql_db_query_checker">>,
       <<"sql_db_query">>, <<"get_db_capabilities">>,
       <<"viz_tools", "create_pie_chart">>, <<"viz_tools", "create_bar_chart">> >>

\* getattr along a path: AttributeError when the wrapper lacks the first name
\* or the visualization module the second
Resolves(wrapper, path) ==
    /\ path[1] \in wrapper
    /\ Len(path) > 1 => path[2] \in {"generate_plot", "generate_plotly_code"}

\* the try block of main that sets the agent up, one attribute read of
\* setup_agent_tools per step; after the last read initialize_agent runs and
\* main enters the question loop.  `agent_raises`: Agent(...) raises
setup_agent_tools(agent_raises) ==
    /\ InMain("tools")
    /\ LET path == ToolReads[Len(op.tools) + 1]
           tools == Append(op.tools, path)
       IN  /\ calls' = calls \o << <<"getattr", path[1]>> >>
           /\ IF ~Resolves(op.wrapper, path)
              THEN /\ ret' = [kind |-> "exit", code |-> 1, message |-> "Error initializing agent"]
                   /\ MainGoto("exited", op.wrapper, op.database_context, op.tools)
              ELSE IF Len(tools) < Len(ToolReads)
              THEN /\ ret' = ret
                   /\ MainGoto("tools", op.wrapper, op.database_context, tools)
              ELSE IF agent_raises
              THEN /\ ret' = [kind |-> "exit", code |-> 1, message |-> "Error initializing agent"]
                   /\ MainGoto("exited", op.wrapper, op.database_context, tools)
              ELSE /\ ret' = ret
                   /\ MainGoto("loop", op.wrapper, op.database_context, tools)
    /\ UNCHANGED sql_engine
    /\ MainFrame

InitMain ==
    /\ available = [mongo |-> FALSE, sql |-> FALSE]
    /\ sql_engine = "none"
    /\ current_db_type = "sql"
    /\ sql_schema_cache = << >>
    /\ mongo_schema_cache = << >>
    /\ latest_query_result = None
    /\ latest_query_columns = None
    /\ now = 0
    /\ ticks = 0
    /\ data_version \in {1, 2}
    /\ op = [name |-> "main", at |-> "connect", wrapper |-> {},
             database_context |-> None, tools |-> << >>]
    /\ ret = [kind |-> "none"]
    /\ calls = << >>
    /\ created_text = [sql |-> << >>, mongo |-> << >>]
    /\ InferIdle

NextMain ==
    \/ \E mysql_connects \in BOOLEAN, sqlite \in SqliteOutcomes, inspects \in BOOLEAN :
          initialize_connection(mysql_connects, sqlite, inspects)
    \/ create_tools_with_connection
    \/ \E listFails \in BOOLEAN, fails \in SUBSET Range(SqlTables) :
          build_database_context(listFails, fails)
    \/ \E agent_raises \in BOOLEAN : setup_agent_tools(agent_raises)

SpecMain == InitMain /\ [][NextMain]_vars

-----------------------------------------------------------------------------
(* Properties of the modular entry point *)

\* C30: once initialize_connection has returned an engine and an inspector and
\* build_database_context has completed, main does not exit with code 1 while
\* it sets the agent up, and every attribute setup_agent_tools has read from
\* the wrapper is one that create_tools_with_connection provides.
C30_AgentSetupReachesLoop ==
    (op.name = "main" /\ op.database_context # None) =>
        /\ ~(op.at = "exited" /\ ret.kind = "exit" /\ ret.code = 1
                              /\ Len(op.tools) < Len(ToolReads))
        /\ \A i \in DOMAIN calls :
              calls[i][1] = "getattr" => calls[i][2] \in WrapperAttributes

====
